---- MODULE Spec2Model ----
(***************************************************************************)
(* A model of the photo composition and rendering engine of pookie:        *)
(* the adjustment filter (lib/filters), the placement calculator           *)
(* (lib/placement), the mask projector and shadow layer of CanvasStage and *)
(* renderToCanvas (lib/renderer), the editing session (lib/store and the   *)
(* editor / export pages), background removal (lib/segmentation), and the  *)
(* admin theme editor (LayerPanel, lib/admin/themeState, lib/themes.admin).*)
(*                                                                         *)
(* JavaScript numbers are modelled as exact rationals <<n, d>> in lowest   *)
(* terms with d > 0.  Math.round is floor(x + 1/2).                        *)
(***************************************************************************)
EXTENDS Integers, Sequences, FiniteSets, TLC

VARIABLES
    \* ---- adjustment filter (applyFiltersToImageData / applyFiltersToCanvas)
    fdata,        \* the RGBA buffer handed to the filter: a sequence of pixels
    fvalues,      \* the AdjustValues bundle
    fout,         \* the buffer after the call (<<>> before any call)
    fop,          \* which entry point ran: "none", "imageData", "canvas"
    \* ---- placement calculator (calculateInitialPlacement)
    pbox,         \* theme.babyPlacement
    pstage,       \* <<stageWidth, stageHeight>>
    pnat,         \* <<babyNaturalWidth, babyNaturalHeight>>
    pout,         \* the returned BabyTransform, or NoValue before the call
    \* ---- editing session (lib/store), current page, CanvasStage state
    page,                   \* the page shown: theme, photo, processing, editor, export
    selectedTheme,          \* store.selectedTheme
    originalBabyImageUrl,   \* store.originalBabyImageUrl
    processedBabyImageUrl,  \* store.processedBabyImageUrl: the cut-out
    babyTransform,          \* store.babyTransform
    activeTab,              \* store.activeTab
    maskStrokes,            \* store.maskStrokes
    maskMode,               \* store.maskMode
    maskBrushSize,          \* store.maskBrushSize
    editorStageWidth,       \* store.editorStageWidth
    exportedImageUrl,       \* store.exportedImageUrl: what renderToCanvas drew
    containerWidth,         \* CanvasStage prop (0 while the editor is unmounted)
    babyImage,              \* CanvasStage useState: the loaded image
    placementDone,          \* CanvasStage useState
    isDrawing,              \* CanvasStage useState
    currentStrokePoints,    \* CanvasStage useState: flat list x0, y0, x1, y1, ...
    placements,             \* times the auto-place effect has written the
                            \* transform for the current (theme, subject) pair
    \* ---- one renderToCanvas call (lib/renderer)
    rconfig,      \* the RenderConfig of the call
    rbroken,      \* the image urls whose load fails (img.onerror)
    rpc,          \* where the call is: start, below, above, done, failed
    ridx,         \* index of the next layer of the loop the call is in
    rdraws,       \* the draw events issued on the output canvas, in order
    rresult,      \* what the returned promise settled to, NoValue while pending
    \* ---- background removal (lib/segmentation)
    sessionPromise,   \* the module variable: NoValue or the index of a creation
    creations,        \* the InferenceSession.create calls made, in order
    calls,            \* the removeBackground calls: position, awaited creation, result
    \* ---- cropTransparentSpace
    ccanvas,      \* the source canvas: [w, h, alpha], alpha a row-major sequence
    cout,         \* the returned canvas, NoValue before the call
    \* ---- history of the mask operations of the store
    maskLog,      \* the addMaskStroke / undoMaskStroke / clearMaskStrokes calls
                  \* made on the store, in order
    \* ---- adjustment state of the store (lib/store)
    adjustValues, \* store.adjustValues
    activeFilter, \* store.activeFilter: NoValue (null) or [id |-> preset id]
    \* ---- the render requests of the export page (ExportContent)
    renders,      \* the renderToCanvas calls the render effect made, in order:
                  \* the config of each and whether its promise has settled
    mountRender,  \* ExportContent of the current mount: index in renders of
                  \* the call its effect made (isRendering while unsettled), 0 if none
    \* ---- the admin theme editor (lib/admin/themeState, lib/themes.admin)
    adminTheme,     \* useAdminStore.theme, NoValue while none is loaded
    isDirty,        \* useAdminStore.isDirty
    saves,          \* the saveThemeOverride calls made, in order: the override
                    \* of each and whether it has written to localStorage
    storedOverride  \* the override localStorage holds for the theme id

filterVars == <<fdata, fvalues, fout, fop>>
placeVars == <<pbox, pstage, pnat, pout>>

sessionVars == <<page, selectedTheme, originalBabyImageUrl, processedBabyImageUrl,
                 babyTransform, activeTab, maskStrokes, maskMode, maskBrushSize,
                 editorStageWidth, exportedImageUrl, containerWidth, babyImage,
                 placementDone, isDrawing, currentStrokePoints, placements>>

renderVars == <<rconfig, rbroken, rpc, ridx, rdraws, rresult>>
segVars == <<sessionPromise, creations, calls>>
cropVars == <<ccanvas, cout>>
historyVars == <<maskLog>>
adjustVars == <<adjustValues, activeFilter>>
exportVars == <<renders, mountRender>>
adminVars == <<adminTheme, isDirty, saves, storedOverride>>
extVars == <<adjustVars, exportVars, adminVars>>
libVars == <<renderVars, segVars, cropVars, historyVars, exportVars, adminVars>>

vars == <<fdata, fvalues, fout, fop, pbox, pstage, pnat, pout,
          page, selectedTheme, originalBabyImageUrl, processedBabyImageUrl,
          babyTransform, activeTab, maskStrokes, maskMode, maskBrushSize,
          editorStageWidth, exportedImageUrl, containerWidth, babyImage,
          placementDone, isDrawing, currentStrokePoints, placements,
          rconfig, rbroken, rpc, ridx, rdraws, rresult,
          sessionPromise, creations, calls, ccanvas, cout, maskLog,
          adjustValues, activeFilter, renders, mountRender,
          adminTheme, isDirty, saves, storedOverride>>

\* the absent value (null / not yet computed)
NoValue == [none |-> TRUE]

-----------------------------------------------------------------------------
(* Rational arithmetic: the model of JavaScript's number operations.       *)

Abs(n) == IF n < 0 THEN -n ELSE n

RECURSIVE GCD(_, _)
GCD(a, b) == IF b = 0 THEN a ELSE GCD(b, a % b)

Norm(n, d) ==
    LET s == IF d < 0 THEN -1 ELSE 1
        g == GCD(Abs(n), Abs(d))
    IN  <<(s * n) \div g, (s * d) \div g>>

R(n) == <<n, 1>>
Frac(n, d) == Norm(n, d)

RAdd(a, b) == Norm(a[1] * b[2] + b[1] * a[2], a[2] * b[2])
RSub(a, b) == Norm(a[1] * b[2] - b[1] * a[2], a[2] * b[2])
RMul(a, b) ==
    LET g1 == GCD(Abs(a[1]), b[2])
        g2 == GCD(Abs(b[1]), a[2])
    IN  Norm((a[1] \div g1) * (b[1] \div g2), (a[2] \div g2) * (b[2] \div g1))
RDiv(a, b) == RMul(a, IF b[1] < 0 THEN <<-b[2], -b[1]>> ELSE <<b[2], b[1]>>)
RLt(a, b) == a[1] * b[2] < b[1] * a[2]
RLe(a, b) == a[1] * b[2] <= b[1] * a[2]
RMin(a, b) == IF RLt(b, a) THEN b ELSE a
RMax(a, b) == IF RLt(a, b) THEN b ELSE a

\* (mutant) truncation instead of rounding to nearest
MathRound_Floor(x) == x[1] \div x[2]

\* Math.round: the integer nearest to x, ties towards +infinity
MathRound(x) == (2 * x[1] + x[2]) \div (2 * x[2])

IntMin(a, b) == IF b < a THEN b ELSE a
IntMax(a, b) == IF a < b THEN b ELSE a

-----------------------------------------------------------------------------
(* The adjustment filter, lib/filters.                                      *)

\* (mutant) the factor computed as contrast / 100, without the 100 + base
ContrastFactor_NoBase(contrast) == RMax(R(0), RDiv(contrast, R(100)))

\* const contrastFactor = contrast === 0 ? 1 : Math.max(0, (100 + contrast) / 100)
ContrastFactor(contrast) ==
    IF contrast = R(0) THEN R(1)
    ELSE RMax(R(0), RDiv(RAdd(R(100), contrast), R(100)))

\* r += brightness * 255
Brighten(c, brightness) == RAdd(c, RMul(brightness, R(255)))

\* r = ((r / 255 - 0.5) * contrastFactor + 0.5) * 255
Contrast(c, factor) ==
    RMul(RAdd(RMul(RSub(RDiv(c, R(255)), Frac(1, 2)), factor), Frac(1, 2)), R(255))

\* if (saturation !== 0) { avg = (r+g+b)/3; r += (r - avg) * saturation; ... }
Saturate(rgb, saturation) ==
    IF saturation = R(0) THEN rgb
    ELSE LET avg == RDiv(RAdd(RAdd(rgb[1], rgb[2]), rgb[3]), R(3))
         IN  [i \in 1..3 |-> RAdd(rgb[i], RMul(RSub(rgb[i], avg), saturation))]

\* if (warmth !== 0) { r *= 1 + warmth * 0.05; b *= 1 - warmth * 0.05; }
Warm(rgb, warmth) ==
    IF warmth = R(0) THEN rgb
    ELSE <<RMul(rgb[1], RAdd(R(1), RMul(warmth, Frac(5, 100)))),
           rgb[2],
           RMul(rgb[3], RSub(R(1), RMul(warmth, Frac(5, 100))))>>

\* Math.max(0, Math.min(255, Math.round(r)))
ClampRound(c) == IntMax(0, IntMin(255, MathRound(c)))

\* (mutant) contrast applied before brightness
FilterPixel_ContrastFirst(p, values) ==
    IF p[4] = 0 THEN p
    ELSE LET factor == ContrastFactor(values.contrast)
             c1 == [i \in 1..3 |-> Contrast(R(p[i]), factor)]
             b1 == [i \in 1..3 |-> Brighten(c1[i], values.brightness)]
             s1 == Saturate(b1, values.vibrance)
             w1 == Warm(s1, values.warmth)
         IN  <<ClampRound(w1[1]), ClampRound(w1[2]), ClampRound(w1[3]), p[4]>>

\* (mutant) fully transparent pixels are filtered like the others
FilterPixel_NoSkip(p, values) ==
    LET factor == ContrastFactor(values.contrast)
        b1 == [i \in 1..3 |-> Brighten(R(p[i]), values.brightness)]
        c1 == [i \in 1..3 |-> Contrast(b1[i], factor)]
        s1 == Saturate(c1, values.vibrance)
        w1 == Warm(s1, values.warmth)
    IN  <<ClampRound(w1[1]), ClampRound(w1[2]), ClampRound(w1[3]), p[4]>>

\* one iteration of the loop over data, for the pixel p = <<r, g, b, a>>
FilterPixel(p, values) ==
    IF p[4] = 0 THEN p
    ELSE LET factor == ContrastFactor(values.contrast)
             b1 == [i \in 1..3 |-> Brighten(R(p[i]), values.brightness)]
             c1 == [i \in 1..3 |-> Contrast(b1[i], factor)]
             s1 == Saturate(c1, values.vibrance)
             w1 == Warm(s1, values.warmth)
         IN  <<ClampRound(w1[1]), ClampRound(w1[2]), ClampRound(w1[3]), p[4]>>

\* the whole loop: for (let i = 0; i < data.length; i += 4)
ApplyFiltersToImageDataFn(data, values) ==
    [i \in 1..Len(data) |-> FilterPixel(data[i], values)]

\* renderer's wrapper: copies the source, returns early when all values are 0
ApplyFiltersToCanvasFn(data, values) ==
    LET hasFilters == \/ values.brightness # R(0)
                      \/ values.contrast # R(0)
                      \/ values.vibrance # R(0)
                      \/ values.warmth # R(0)
    IN  IF ~hasFilters THEN data ELSE ApplyFiltersToImageDataFn(data, values)

-----------------------------------------------------------------------------
(* Specification SpecFilter: the filter applied to bounded buffers.        *)

MaxPixels == 2

FilterColors ==
    {<<200, 100, 50>>, <<0, 0, 0>>, <<255, 255, 255>>, <<128, 127, 20>>}
FilterAlphas == {0, 255}
FilterPixels ==
    {<<c[1], c[2], c[3], a>> : c \in FilterColors, a \in FilterAlphas}
        \cup {<<200, 100, 50, 1>>}
FilterBuffers == UNION {[1..k -> FilterPixels] : k \in 0..MaxPixels}

\* brightness, vibrance and warmth are fractions, contrast is in -100..100
\* (the admin JSON may carry values outside the slider range)
FilterBundles ==
    [brightness : {R(0), Frac(1, 10), Frac(-2, 100)},
     contrast   : {R(0), R(18), R(-50), R(-120)},
     vibrance   : {R(0), Frac(15, 100)},
     warmth     : {R(0), Frac(1, 10)}]

ZeroAdjust == [brightness |-> R(0), contrast |-> R(0),
               vibrance |-> R(0), warmth |-> R(0)]

\* the variables of the other specifications, held at rest
\* no renderToCanvas call made
RenderIdle ==
    /\ rconfig = NoValue
    /\ rbroken = {}
    /\ rpc = "idle"
    /\ ridx = 0
    /\ rdraws = <<>>
    /\ rresult = NoValue

\* the segmentation module as loaded, no removeBackground call made
SegIdle ==
    /\ sessionPromise = NoValue
    /\ creations = <<>>
    /\ calls = <<>>

\* no cropTransparentSpace call made
CropIdle ==
    /\ ccanvas = NoValue
    /\ cout = NoValue

\* no mask operation made on the store
HistoryIdle == maskLog = <<>>

\* no render requested on the export page
ExportIdle ==
    /\ renders = <<>>
    /\ mountRender = 0

\* the admin store as created, nothing saved
AdminIdle ==
    /\ adminTheme = NoValue
    /\ isDirty = FALSE
    /\ saves = <<>>
    /\ storedOverride = NoValue

LibIdle ==
    RenderIdle /\ SegIdle /\ CropIdle /\ HistoryIdle /\ ExportIdle /\ AdminIdle

FilterIdle ==
    /\ fdata = <<>>
    /\ fvalues = ZeroAdjust
    /\ fout = <<>>
    /\ fop = "none"

PlaceIdle ==
    /\ pbox = NoValue
    /\ pstage = <<>>
    /\ pnat = <<>>
    /\ pout = NoValue

\* store.ts defaultAdjust
DefaultAdjust == ZeroAdjust

\* store.ts defaultTransform
DefaultTransform == [x |-> R(0), y |-> R(0), scaleX |-> R(1), scaleY |-> R(1),
                     rotation |-> R(0)]

\* the store as created, no page of the flow entered yet
SessionIdle ==
    /\ page = "theme"
    /\ selectedTheme = NoValue
    /\ originalBabyImageUrl = NoValue
    /\ processedBabyImageUrl = NoValue
    /\ babyTransform = DefaultTransform
    /\ activeTab = "move"
    /\ maskStrokes = <<>>
    /\ maskMode = "erase"
    /\ maskBrushSize = R(20)
    /\ editorStageWidth = 1024
    /\ exportedImageUrl = NoValue
    /\ containerWidth = 0
    /\ babyImage = NoValue
    /\ placementDone = FALSE
    /\ isDrawing = FALSE
    /\ currentStrokePoints = <<>>
    /\ placements = 0
    /\ adjustValues = DefaultAdjust
    /\ activeFilter = NoValue

InitFilter ==
    /\ fdata \in FilterBuffers
    /\ fvalues \in FilterBundles
    /\ fout = <<>>
    /\ fop = "none"
    /\ PlaceIdle
    /\ SessionIdle
    /\ LibIdle

ApplyFiltersToImageData ==
    /\ fop = "none"
    /\ fout' = ApplyFiltersToImageDataFn(fdata, fvalues)
    /\ fop' = "imageData"
    /\ UNCHANGED <<fdata, fvalues, placeVars, sessionVars, adjustVars, libVars>>

ApplyFiltersToCanvas ==
    /\ fop = "none"
    /\ fout' = ApplyFiltersToCanvasFn(fdata, fvalues)
    /\ fop' = "canvas"
    /\ UNCHANGED <<fdata, fvalues, placeVars, sessionVars, adjustVars, libVars>>

NextFilter ==
    \/ ApplyFiltersToImageData
    \/ ApplyFiltersToCanvas

SpecFilter == InitFilter /\ [][NextFilter]_vars

-----------------------------------------------------------------------------
(* Claims about the adjustment filter.                                      *)

\* C3 (filter identity): with brightness = contrast = vibrance = warmth = 0
\* both entry points leave every byte of every pixel unchanged.
C3_FilterIdentity ==
    (fop # "none" /\ fvalues = ZeroAdjust) => fout = fdata

C3_Witness ==
    /\ fop = "imageData"
    /\ fvalues = ZeroAdjust
    /\ \E i \in 1..Len(fdata) : fdata[i] = <<200, 100, 50, 255>>
    /\ \E i \in 1..Len(fdata) : fdata[i][4] = 1

\* The filter stages as the claim states them, composed in the stated order.
C4_Reference(p, v) ==
    LET factor == IF v.contrast = R(0) THEN R(1)
                  ELSE RMax(R(0), Frac(100 * v.contrast[2] + v.contrast[1],
                                       100 * v.contrast[2]))
        bright(c) == RAdd(c, RMul(v.brightness, R(255)))
        contr(c) == RAdd(RMul(RSub(c, Frac(255, 2)), factor), Frac(255, 2))
        b == [i \in 1..3 |-> bright(R(p[i]))]
        c == [i \in 1..3 |-> contr(b[i])]
        avg == RDiv(RAdd(RAdd(c[1], c[2]), c[3]), R(3))
        s == [i \in 1..3 |-> RAdd(c[i], RMul(RSub(c[i], avg), v.vibrance))]
        w == <<RMul(s[1], RAdd(R(1), RDiv(v.warmth, R(20)))),
               s[2],
               RMul(s[3], RSub(R(1), RDiv(v.warmth, R(20))))>>
        cr(x) == IF RLt(x, R(0)) THEN 0
                 ELSE IF RLt(R(255), x) THEN 255
                 ELSE IF RLe(Frac(1, 2), RSub(x, R(x[1] \div x[2])))
                      THEN (x[1] \div x[2]) + 1 ELSE x[1] \div x[2]
    IN  <<cr(w[1]), cr(w[2]), cr(w[3]), p[4]>>

\* The same stages with contrast applied before brightness.
C4_Swapped(p, v) ==
    LET factor == IF v.contrast = R(0) THEN R(1)
                  ELSE RMax(R(0), Frac(100 * v.contrast[2] + v.contrast[1],
                                       100 * v.contrast[2]))
        bright(c) == RAdd(c, RMul(v.brightness, R(255)))
        contr(c) == RAdd(RMul(RSub(c, Frac(255, 2)), factor), Frac(255, 2))
        c == [i \in 1..3 |-> contr(R(p[i]))]
        b == [i \in 1..3 |-> bright(c[i])]
        avg == RDiv(RAdd(RAdd(b[1], b[2]), b[3]), R(3))
        s == [i \in 1..3 |-> RAdd(b[i], RMul(RSub(b[i], avg), v.vibrance))]
        w == <<RMul(s[1], RAdd(R(1), RDiv(v.warmth, R(20)))),
               s[2],
               RMul(s[3], RSub(R(1), RDiv(v.warmth, R(20))))>>
        cr(x) == IF RLt(x, R(0)) THEN 0
                 ELSE IF RLt(R(255), x) THEN 255
                 ELSE IF RLe(Frac(1, 2), RSub(x, R(x[1] \div x[2])))
                      THEN (x[1] \div x[2]) + 1 ELSE x[1] \div x[2]
    IN  <<cr(w[1]), cr(w[2]), cr(w[3]), p[4]>>

C5_FilterFormula ==
    (fop # "none" /\ fvalues = [ZeroAdjust EXCEPT !.brightness = Frac(1, 10)]) =>
        \A i \in 1..Len(fdata) :
            fdata[i] = <<200, 100, 50, 255>> => fout[i] = <<226, 126, 76, 255>>

C5_Witness ==
    /\ fop = "imageData"
    /\ fvalues = [ZeroAdjust EXCEPT !.brightness = Frac(1, 10)]
    /\ \E i \in 1..Len(fdata) :
          fdata[i] = <<200, 100, 50, 255>> /\ fout[i] = <<226, 126, 76, 255>>

\* C6 (frame): the filter never changes an alpha byte, and a pixel whose alpha
\* is 0 keeps its R, G and B, for every bundle.
C6_AlphaFrame ==
    fop # "none" =>
        /\ Len(fout) = Len(fdata)
        /\ \A i \in 1..Len(fdata) :
              /\ fout[i][4] = fdata[i][4]
              /\ fdata[i][4] = 0 => fout[i] = fdata[i]

C6_Witness ==
    /\ fop = "imageData"
    /\ fvalues.brightness # R(0)
    /\ \E i, j \in 1..Len(fdata) :
          /\ i < j
          /\ fdata[i] = <<200, 100, 50, 0>> /\ fout[i] = fdata[i]
          /\ fdata[j][4] = 255 /\ fout[j] # fdata[j]

-----------------------------------------------------------------------------
(* The placement calculator, lib/placement.                                 *)

\* (mutant) each field is divided by 100 only if that field exceeds 1
NormalizeBox_PerField(bp) ==
    LET f(v) == IF RLt(R(1), v) THEN RDiv(v, R(100)) ELSE v
    IN  [fx |-> f(bp.x), fy |-> f(bp.y), fw |-> f(bp.width), fh |-> f(bp.height)]

\* isLegacy = bp.x > 1 || bp.y > 1 || bp.width > 1 || bp.height > 1, then
\* fx, fy, fw, fh = isLegacy ? field / 100 : field
NormalizeBox(bp) ==
    LET isLegacy == \/ RLt(R(1), bp.x) \/ RLt(R(1), bp.y)
                    \/ RLt(R(1), bp.width) \/ RLt(R(1), bp.height)
        f(v) == IF isLegacy THEN RDiv(v, R(100)) ELSE v
    IN  [fx |-> f(bp.x), fy |-> f(bp.y), fw |-> f(bp.width), fh |-> f(bp.height)]

\* (mutant) cover instead of fit
ScaleToFit_Max(boxW, boxH, nw, nh) == RMax(RDiv(boxW, nw), RDiv(boxH, nh))

\* scaleToFit = Math.min(boxW / babyNaturalWidth, boxH / babyNaturalHeight)
ScaleToFit(boxW, boxH, nw, nh) == RMin(RDiv(boxW, nw), RDiv(boxH, nh))

\* (mutant) the bottom anchor forgets to subtract the fitted height
AnchorY_BottomNoFit(anchor, boxCenterY, boxH, fitHeight) ==
    CASE anchor = "top" -> RSub(boxCenterY, RDiv(boxH, R(2)))
      [] anchor = "bottom" -> RAdd(boxCenterY, RDiv(boxH, R(2)))
      [] OTHER -> RSub(boxCenterY, RDiv(fitHeight, R(2)))

\* switch (bp.anchor): the y of the three branches
AnchorY(anchor, boxCenterY, boxH, fitHeight) ==
    CASE anchor = "top" -> RSub(boxCenterY, RDiv(boxH, R(2)))
      [] anchor = "bottom" -> RSub(RAdd(boxCenterY, RDiv(boxH, R(2))), fitHeight)
      [] OTHER -> RSub(boxCenterY, RDiv(fitHeight, R(2)))

CalculateInitialPlacementFn(bp, stageWidth, stageHeight, nw, nh) ==
    LET n == NormalizeBox(bp)
        boxCenterX == RAdd(RMul(n.fx, stageWidth), RDiv(RMul(n.fw, stageWidth), R(2)))
        boxCenterY == RAdd(RMul(n.fy, stageHeight), RDiv(RMul(n.fh, stageHeight), R(2)))
        boxW == RMul(n.fw, stageWidth)
        boxH == RMul(n.fh, stageHeight)
        scaleToFit == ScaleToFit(boxW, boxH, nw, nh)
        fitWidth == RMul(nw, scaleToFit)
        fitHeight == RMul(nh, scaleToFit)
    IN  [x |-> RSub(boxCenterX, RDiv(fitWidth, R(2))),
         y |-> AnchorY(bp.anchor, boxCenterY, boxH, fitHeight),
         scaleX |-> scaleToFit,
         scaleY |-> scaleToFit,
         rotation |-> bp.rotation]

-----------------------------------------------------------------------------
(* Specification SpecPlacement: the calculator on bounded inputs.          *)

\* fractional (0-1) and legacy percentage (0-100) encodings, mixed per field
PlacementBoxes ==
    [x : {Frac(1, 4), R(1), R(25)},
     y : {Frac(3, 10), R(30)},
     width : {Frac(1, 2), R(1), R(50)},
     height : {Frac(1, 2), R(50)},
     rotation : {R(0), R(15)},
     anchor : {"top", "center", "bottom", "middle"}]

StageSizes == {<<R(400), R(600)>>, <<R(366), R(488)>>}
NaturalSizes == {<<R(100), R(50)>>, <<R(50), R(100)>>, <<R(64), R(64)>>}

InitPlacement ==
    /\ pbox \in PlacementBoxes
    /\ pstage \in StageSizes
    /\ pnat \in NaturalSizes
    /\ pout = NoValue
    /\ FilterIdle
    /\ SessionIdle
    /\ LibIdle

CalculateInitialPlacement ==
    /\ pout = NoValue
    /\ pout' = CalculateInitialPlacementFn(pbox, pstage[1], pstage[2], pnat[1], pnat[2])
    /\ UNCHANGED <<pbox, pstage, pnat, filterVars, sessionVars, adjustVars, libVars>>

NextPlacement == CalculateInitialPlacement

SpecPlacement == InitPlacement /\ [][NextPlacement]_vars

-----------------------------------------------------------------------------
(* Claims about the placement calculator.                                   *)

\* the placement box in stage pixels, as the claims speak of it: the four
\* fields as fractions (all divided by 100 when any exceeds 1) times the stage
ClaimBoxPx(bp, stage) ==
    LET legacy == \E v \in {bp.x, bp.y, bp.width, bp.height} : RLt(R(1), v)
        fr(v) == IF legacy THEN Frac(v[1], 100 * v[2]) ELSE v
    IN  [left |-> RMul(fr(bp.x), stage[1]),
         top |-> RMul(fr(bp.y), stage[2]),
         w |-> RMul(fr(bp.width), stage[1]),
         h |-> RMul(fr(bp.height), stage[2])]

ExampleBox == [x |-> Frac(1, 4), y |-> Frac(3, 10), width |-> Frac(1, 2),
               height |-> Frac(1, 2), rotation |-> R(0), anchor |-> "center"]
ExampleTransform == [x |-> R(100), y |-> R(280), scaleX |-> R(2),
                     scaleY |-> R(2), rotation |-> R(0)]

\* C7 (fit-scale): scaleX = scaleY = min(boxWidth/naturalWidth,
\* boxHeight/naturalHeight), the fitted subject is never wider or taller than
\* the box, and the example box on a 400x600 stage with a 100x50 subject and the
\* center anchor gives {x:100, y:280, scaleX:2, scaleY:2, rotation:0}.
C7_FitScale ==
    pout # NoValue =>
        LET box == ClaimBoxPx(pbox, pstage)
            sw == RDiv(box.w, pnat[1])
            sh == RDiv(box.h, pnat[2])
        IN  /\ pout.scaleX = pout.scaleY
            /\ pout.scaleX = (IF RLe(sw, sh) THEN sw ELSE sh)
            /\ RLe(RMul(pnat[1], pout.scaleX), box.w)
            /\ RLe(RMul(pnat[2], pout.scaleY), box.h)
            /\ (pbox = ExampleBox /\ pstage = <<R(400), R(600)>>
                    /\ pnat = <<R(100), R(50)>>) => pout = ExampleTransform

C7_Witness ==
    /\ pbox = ExampleBox
    /\ pstage = <<R(400), R(600)>>
    /\ pnat = <<R(100), R(50)>>
    /\ pout = ExampleTransform

\* C8 (legacy normalization): when any of x, y, width, height exceeds 1 the
\* result is the transform of the box with all four fields divided by 100; the
\* box {25, 30, 50, 50} gives the transform of {0.25, 0.30, 0.50, 0.50}.
C8_LegacyNormalization ==
    (pout # NoValue
        /\ \E v \in {pbox.x, pbox.y, pbox.width, pbox.height} : RLt(R(1), v)) =>
        LET divided == [pbox EXCEPT !.x = RDiv(pbox.x, R(100)),
                                    !.y = RDiv(pbox.y, R(100)),
                                    !.width = RDiv(pbox.width, R(100)),
                                    !.height = RDiv(pbox.height, R(100))]
        IN  /\ pout = CalculateInitialPlacementFn(divided, pstage[1], pstage[2],
                                                  pnat[1], pnat[2])
            /\ (pbox = [ExampleBox EXCEPT !.x = R(25), !.y = R(30),
                                          !.width = R(50), !.height = R(50)]
                   /\ pstage = <<R(400), R(600)>> /\ pnat = <<R(100), R(50)>>)
                 => pout = ExampleTransform

\* a legacy box one of whose fields does not itself exceed 1
C8_Witness ==
    /\ pout # NoValue
    /\ pbox.x = R(1)
    /\ pbox.y = R(30)
    /\ pbox.width = R(50)
    /\ pout.x = RSub(RAdd(RMul(Frac(1, 100), pstage[1]),
                          RDiv(RMul(Frac(1, 2), pstage[1]), R(2))),
                     RDiv(RMul(pnat[1], pout.scaleX), R(2)))

\* C9 (anchor alignment): the fitted subject is centred horizontally in the
\* box; top anchor: top edges coincide; bottom anchor: bottom edges coincide;
\* center or any other anchor: centred vertically.
C9_AnchorAlignment ==
    pout # NoValue =>
        LET box == ClaimBoxPx(pbox, pstage)
            fitW == RMul(pnat[1], pout.scaleX)
            fitH == RMul(pnat[2], pout.scaleY)
        IN  /\ RAdd(pout.x, RDiv(fitW, R(2))) = RAdd(box.left, RDiv(box.w, R(2)))
            /\ pbox.anchor = "top" => pout.y = box.top
            /\ pbox.anchor = "bottom" =>
                   RAdd(pout.y, fitH) = RAdd(box.top, box.h)
            /\ pbox.anchor \notin {"top", "bottom"} =>
                   RAdd(pout.y, RDiv(fitH, R(2))) = RAdd(box.top, RDiv(box.h, R(2)))

\* a bottom-anchored subject shorter than its box
C9_Witness ==
    /\ pout # NoValue
    /\ pbox.anchor = "bottom"
    /\ RLt(RMul(pnat[2], pout.scaleY), ClaimBoxPx(pbox, pstage).h)
    /\ RAdd(pout.y, RMul(pnat[2], pout.scaleY)) =
           RAdd(ClaimBoxPx(pbox, pstage).top, ClaimBoxPx(pbox, pstage).h)

-----------------------------------------------------------------------------
(* The mask projector: the CanvasStage pointer handlers that record strokes *)
(* and applyMaskToImage, which replays them in renderToCanvas.             *)

\* Math.cos / Math.sin of an angle in degrees, for the multiples of 90
CosDeg(d) ==
    LET q == (((d[1] \div 90) % 4) + 4) % 4
    IN  CASE q = 0 -> R(1) [] q = 1 -> R(0) [] q = 2 -> R(-1) [] q = 3 -> R(0)
SinDeg(d) ==
    LET q == (((d[1] \div 90) % 4) + 4) % 4
    IN  CASE q = 0 -> R(0) [] q = 1 -> R(1) [] q = 2 -> R(0) [] q = 3 -> R(-1)

RNeg(a) == <<-a[1], a[2]>>

\* dx, dy -> rotate by -rotation -> divide by scaleX / scaleY: the projection
\* written out in handleMaskPointerMove and again in applyMaskToImage
ProjectToNative(px, py, t) ==
    LET dx == RSub(px, t.x)
        dy == RSub(py, t.y)
        cos == CosDeg(RNeg(t.rotation))
        sin == SinDeg(RNeg(t.rotation))
        rx == RSub(RMul(dx, cos), RMul(dy, sin))
        ry == RAdd(RMul(dx, sin), RMul(dy, cos))
    IN  <<RDiv(rx, t.scaleX), RDiv(ry, t.scaleY)>>

\* the path built by the loop for (i = 0; i < stroke.points.length; i += 2)
ReplayPath(points, t) ==
    [k \in 1..(Len(points) \div 2) |->
        ProjectToNative(points[2 * k - 1], points[2 * k], t)]

\* one iteration of for (const stroke of strokes): the width and path drawn
ReplayStroke(stroke, t) ==
    [type |-> stroke.type,
     lineWidth |-> RDiv(stroke.brushSize, t.scaleX),
     path |-> ReplayPath(stroke.points, t)]

ApplyMaskToImageFn(strokes, t) ==
    [i \in 1..Len(strokes) |-> ReplayStroke(strokes[i], t)]

-----------------------------------------------------------------------------
(* The shadow synthesizer (lib/shadow), the shadow layer of CanvasStage and *)
(* renderToCanvas (lib/renderer).                                           *)

MAX_EXPORT_DIMENSION == 2048
maxPreview == 1200

\* calculateShadowOffset without its early return for a disabled shadow
CalculateShadowOffsetFn_IgnoreEnabled(shadow) ==
    [offsetX |-> RMul(CosDeg(shadow.angle), shadow.distance),
     offsetY |-> RMul(SinDeg(shadow.angle), shadow.distance),
     blur |-> shadow.blur,
     opacity |-> shadow.opacity]

\* calculateShadowOffset, for angles that are multiples of 90 degrees
CalculateShadowOffsetFn(shadow) ==
    IF ~shadow.enabled
    THEN [offsetX |-> R(0), offsetY |-> R(0), blur |-> R(0), opacity |-> R(0)]
    ELSE [offsetX |-> RMul(CosDeg(shadow.angle), shadow.distance),
          offsetY |-> RMul(SinDeg(shadow.angle), shadow.distance),
          blur |-> shadow.blur,
          opacity |-> shadow.opacity]

\* stageDims: { width: containerWidth, height: Math.round(containerWidth * aspect) }
StageDims(theme, width) ==
    <<R(width), R(MathRound(RMul(R(width), Frac(theme.height, theme.width))))>>

\* the shadow KonvaImage of CanvasStage: mounted when shadowOffset && shadowSource
CanvasStageShadowFn(theme, stageWidth, t, img) ==
    LET shadowOffset == IF theme.shadow.enabled
                        THEN CalculateShadowOffsetFn(theme.shadow) ELSE NoValue
        previewScale == Frac(stageWidth, theme.width)
    IN  IF shadowOffset # NoValue /\ img # NoValue
        THEN [x |-> RAdd(t.x, RMul(shadowOffset.offsetX, previewScale)),
              y |-> RAdd(t.y, RMul(shadowOffset.offsetY, previewScale)),
              scaleX |-> t.scaleX,
              scaleY |-> t.scaleY,
              rotation |-> t.rotation,
              opacity |-> shadowOffset.opacity]
        ELSE NoValue

\* (mutant) the export cap is used in both modes
ScaleFactor_ExportCapOnly(theme, mode) ==
    RMin(R(1), Frac(MAX_EXPORT_DIMENSION, IntMax(theme.width, theme.height)))

\* renderToCanvas, the scaleFactor of the two modes
ScaleFactor(theme, mode) ==
    IF mode = "export"
    THEN RMin(R(1), Frac(MAX_EXPORT_DIMENSION, IntMax(theme.width, theme.height)))
    ELSE LET maxDim == IntMax(theme.width, theme.height)
         IN  IF maxDim <= maxPreview THEN R(1) ELSE Frac(maxPreview, maxDim)

\* (mutant) each axis is capped on its own
OutputSize_PerAxis(theme, mode) ==
    LET cap == IF mode = "export" THEN MAX_EXPORT_DIMENSION ELSE maxPreview
    IN  <<IntMin(theme.width, cap), IntMin(theme.height, cap)>>

\* renderToCanvas: <<outWidth, outHeight>>
OutputSize(theme, mode) ==
    <<MathRound(RMul(R(theme.width), ScaleFactor(theme, mode))),
      MathRound(RMul(R(theme.height), ScaleFactor(theme, mode)))>>

\* (mutant) stage coordinates are drawn as they are
Upscale_None(outWidth, configStageWidth) == R(1)

\* renderToCanvas: stageWidth = config.stageWidth || outWidth; upscale
Upscale(outWidth, configStageWidth) ==
    LET stageWidth == IF configStageWidth # 0 THEN configStageWidth ELSE outWidth
    IN  Frac(outWidth, stageWidth)

\* renderToCanvas: the output size, the mask replay, and the context state of
\* the shadow draw and of the subject draw
RenderToCanvasFn(config) ==
    LET theme == config.theme
        t == config.babyTransform
        outWidth == OutputSize(theme, config.mode)[1]
        outHeight == OutputSize(theme, config.mode)[2]
        upscale == Upscale(outWidth, config.stageWidth)
        maskedBaby == IF Len(config.maskStrokes) > 0
                      THEN ApplyMaskToImageFn(config.maskStrokes, t)
                      ELSE <<>>
        shadowOffset == CalculateShadowOffsetFn(theme.shadow)
        shadow ==
            IF theme.shadow.enabled
            THEN [alpha |-> theme.shadow.opacity,
                  blur |-> theme.shadow.blur,
                  tx |-> RAdd(RMul(t.x, upscale), RMul(shadowOffset.offsetX, upscale)),
                  ty |-> RAdd(RMul(t.y, upscale), RMul(shadowOffset.offsetY, upscale)),
                  rotation |-> t.rotation,
                  scaleX |-> RMul(t.scaleX, upscale),
                  scaleY |-> RMul(t.scaleY, upscale)]
            ELSE NoValue
        baby == [tx |-> RMul(t.x, upscale),
                 ty |-> RMul(t.y, upscale),
                 rotation |-> t.rotation,
                 scaleX |-> RMul(t.scaleX, upscale),
                 scaleY |-> RMul(t.scaleY, upscale)]
    IN  [outWidth |-> outWidth,
         outHeight |-> outHeight,
         mask |-> maskedBaby,
         shadow |-> shadow,
         baby |-> baby,
         watermark |-> (config.mode = "export"),
         config |-> config]

-----------------------------------------------------------------------------
(* The editing session: lib/store, the pages that drive it, and the        *)
(* CanvasStage component state.                                            *)

MaxStrokes == 1
MaxMoves == 1
MaxPlacements == 2

Theme1 ==
    [id |-> "t1", width |-> 1000, height |-> 1500,
     babyPlacement |-> [x |-> R(25), y |-> R(30), width |-> R(50),
                        height |-> R(50), rotation |-> R(0), anchor |-> "center"],
     shadow |-> [enabled |-> TRUE, angle |-> R(0), distance |-> R(20),
                 blur |-> R(40), opacity |-> Frac(28, 100)],
     defaultAdjust |-> [brightness |-> Frac(1, 20), contrast |-> R(10),
                        vibrance |-> Frac(2, 25), warmth |-> Frac(1, 20)]]
Theme2 ==
    [id |-> "t2", width |-> 3000, height |-> 4000,
     babyPlacement |-> [x |-> Frac(1, 4), y |-> Frac(3, 10), width |-> Frac(1, 2),
                        height |-> Frac(1, 2), rotation |-> R(0), anchor |-> "bottom"],
     shadow |-> [enabled |-> TRUE, angle |-> R(90), distance |-> R(30),
                 blur |-> R(40), opacity |-> Frac(1, 2)],
     defaultAdjust |-> ZeroAdjust]
Theme3 ==
    [id |-> "t3", width |-> 400, height |-> 600,
     babyPlacement |-> [x |-> Frac(1, 4), y |-> Frac(3, 10), width |-> Frac(1, 2),
                        height |-> Frac(1, 2), rotation |-> R(0), anchor |-> "top"],
     shadow |-> [enabled |-> FALSE, angle |-> R(180), distance |-> R(20),
                 blur |-> R(40), opacity |-> Frac(28, 100)],
     defaultAdjust |-> NoValue]
Themes == {Theme1, Theme2, Theme3}

\* the photos the user can pick and the cut-out removeBackground makes of each
Photo1 == [file |-> "photo1"]
Photo2 == [file |-> "photo2"]
Photos == {Photo1, Photo2}
Cutout(url) ==
    IF url = Photo1
    THEN [src |-> url, naturalWidth |-> R(100), naturalHeight |-> R(50)]
    ELSE [src |-> url, naturalWidth |-> R(50), naturalHeight |-> R(100)]

\* widths of the canvas container less its padding (containerWidth - 24)
ContainerWidths == {400, 366}

PointerPositions == {<<R(30), R(40)>>, <<R(50), R(60)>>}
DragPositions == {<<R(10), R(20)>>}
EditedTransforms ==
    {[x |-> R(10), y |-> R(20), scaleX |-> R(2), scaleY |-> R(4), rotation |-> R(90)]}

\* isReady: the Stage, and with it every pointer handler, is mounted
EditorReady == page = "editor" /\ babyImage # NoValue

\* the "Auto-place baby ONCE" effect, run after a render in which the image is
\* img and the container is w wide
AutoPlaceEffect(img, w) ==
    IF selectedTheme # NoValue /\ img # NoValue /\ ~placementDone
    THEN /\ babyTransform' =
                CalculateInitialPlacementFn(selectedTheme.babyPlacement,
                    StageDims(selectedTheme, w)[1], StageDims(selectedTheme, w)[2],
                    img.naturalWidth, img.naturalHeight)
         /\ placementDone' = TRUE
         /\ placements' = IntMin(placements + 1, MaxPlacements)
    ELSE UNCHANGED <<babyTransform, placementDone, placements>>

\* EditorContent and CanvasStage mount: fresh component state, measure(), and
\* the effect that syncs the stage width to the store
MountEditor(w) ==
    /\ page' = "editor"
    /\ containerWidth' = w
    /\ editorStageWidth' = w
    /\ babyImage' = NoValue
    /\ placementDone' = FALSE
    /\ isDrawing' = FALSE
    /\ currentStrokePoints' = <<>>

\* the editor page unmounts: its component state is gone
UnmountEditor ==
    /\ containerWidth' = 0
    /\ babyImage' = NoValue
    /\ placementDone' = FALSE
    /\ isDrawing' = FALSE
    /\ currentStrokePoints' = <<>>


\* store.setSelectedTheme: the adjustValues it stores with the theme
SetSelectedThemeAdjust(theme) ==
    IF theme.defaultAdjust # NoValue THEN theme.defaultAdjust ELSE DefaultAdjust

\* theme page: setSelectedTheme(theme); router.push(/photo)
HandleThemeSelect(theme) ==
    /\ page = "theme"
    /\ selectedTheme' = theme
    /\ adjustValues' = SetSelectedThemeAdjust(theme)
    /\ page' = "photo"
    /\ UNCHANGED <<libVars, activeFilter, filterVars, placeVars, originalBabyImageUrl,
                   processedBabyImageUrl, babyTransform, activeTab,
                   maskStrokes, maskMode, maskBrushSize, editorStageWidth,
                   exportedImageUrl, containerWidth, babyImage,
                   placementDone, isDrawing, currentStrokePoints, placements>>

\* photo page: setOriginalBabyImageUrl(url); router.push(/processing)
HandlePhotoSelect(url) ==
    /\ page = "photo"
    /\ originalBabyImageUrl' = url
    /\ page' = "processing"
    /\ UNCHANGED <<libVars, adjustVars, filterVars, placeVars, selectedTheme,
                   processedBabyImageUrl, babyTransform, activeTab,
                   maskStrokes, maskMode, maskBrushSize, editorStageWidth,
                   exportedImageUrl, containerWidth, babyImage,
                   placementDone, isDrawing, currentStrokePoints, placements>>

\* processing page: skip to the editor when a cut-out exists, else store the
\* cut-out of the chosen photo; then the editor mounts
ProcessingDone(w) ==
    /\ page = "processing"
    /\ originalBabyImageUrl # NoValue
    /\ IF processedBabyImageUrl # NoValue
       THEN UNCHANGED <<processedBabyImageUrl, placements>>
       ELSE /\ processedBabyImageUrl' = Cutout(originalBabyImageUrl)
            /\ placements' = 0
    /\ MountEditor(w)
    /\ UNCHANGED <<libVars, adjustVars, filterVars, placeVars, selectedTheme,
                   originalBabyImageUrl, babyTransform, activeTab,
                   maskStrokes, maskMode, maskBrushSize, exportedImageUrl>>

\* processing page: removeBackground reports failure; the user goes back
ProcessingFailed ==
    /\ page = "processing"
    /\ processedBabyImageUrl = NoValue
    /\ page' = "photo"
    /\ UNCHANGED <<libVars, adjustVars, filterVars, placeVars, selectedTheme,
                   originalBabyImageUrl, processedBabyImageUrl,
                   babyTransform, activeTab, maskStrokes, maskMode,
                   maskBrushSize, editorStageWidth, exportedImageUrl,
                   containerWidth, babyImage, placementDone, isDrawing,
                   currentStrokePoints, placements>>

\* CanvasStage: img.onload -> setBabyImage(img), then the auto-place effect
BabyImageLoaded ==
    /\ page = "editor"
    /\ babyImage = NoValue
    /\ processedBabyImageUrl # NoValue
    /\ babyImage' = processedBabyImageUrl
    /\ AutoPlaceEffect(processedBabyImageUrl, containerWidth)
    /\ UNCHANGED <<libVars, adjustVars, filterVars, placeVars, page, selectedTheme,
                   originalBabyImageUrl, processedBabyImageUrl, activeTab,
                   maskStrokes, maskMode, maskBrushSize, editorStageWidth,
                   exportedImageUrl, containerWidth, isDrawing,
                   currentStrokePoints>>

\* window resize: measure() -> new containerWidth -> new stageDims
HandleResize(w) ==
    /\ page = "editor"
    /\ w # containerWidth
    /\ containerWidth' = w
    /\ editorStageWidth' = w
    /\ AutoPlaceEffect(babyImage, w)
    /\ UNCHANGED <<libVars, adjustVars, filterVars, placeVars, page, selectedTheme,
                   originalBabyImageUrl, processedBabyImageUrl, activeTab,
                   maskStrokes, maskMode, maskBrushSize, exportedImageUrl,
                   babyImage, isDrawing, currentStrokePoints>>

\* BottomTabs onTabChange -> store.setActiveTab
SetActiveTab(tab) ==
    /\ page = "editor"
    /\ tab # activeTab
    /\ activeTab' = tab
    /\ UNCHANGED <<libVars, adjustVars, filterVars, placeVars, page, selectedTheme,
                   originalBabyImageUrl, processedBabyImageUrl,
                   babyTransform, maskStrokes, maskMode, maskBrushSize,
                   editorStageWidth, exportedImageUrl, containerWidth,
                   babyImage, placementDone, isDrawing, currentStrokePoints,
                   placements>>

\* store.setMaskMode
SetMaskMode(mode) ==
    /\ page = "editor"
    /\ mode # maskMode
    /\ maskMode' = mode
    /\ UNCHANGED <<libVars, adjustVars, filterVars, placeVars, page, selectedTheme,
                   originalBabyImageUrl, processedBabyImageUrl,
                   babyTransform, activeTab, maskStrokes, maskBrushSize,
                   editorStageWidth, exportedImageUrl, containerWidth,
                   babyImage, placementDone, isDrawing, currentStrokePoints,
                   placements>>

\* the subject is draggable whenever the tab is not "mask"
HandleBabyDragEnd(pos) ==
    /\ EditorReady
    /\ activeTab # "mask"
    /\ babyTransform' = [babyTransform EXCEPT !.x = pos[1], !.y = pos[2]]
    /\ UNCHANGED <<libVars, adjustVars, filterVars, placeVars, page, selectedTheme,
                   originalBabyImageUrl, processedBabyImageUrl, activeTab,
                   maskStrokes, maskMode, maskBrushSize, editorStageWidth,
                   exportedImageUrl, containerWidth, babyImage,
                   placementDone, isDrawing, currentStrokePoints, placements>>

\* the Transformer is mounted only on the "move" tab
HandleBabyTransformEnd(t) ==
    /\ EditorReady
    /\ activeTab = "move"
    /\ babyTransform' = t
    /\ UNCHANGED <<libVars, adjustVars, filterVars, placeVars, page, selectedTheme,
                   originalBabyImageUrl, processedBabyImageUrl, activeTab,
                   maskStrokes, maskMode, maskBrushSize, editorStageWidth,
                   exportedImageUrl, containerWidth, babyImage,
                   placementDone, isDrawing, currentStrokePoints, placements>>

\* MoveTools reset button -> store.resetBabyTransform
ResetBabyTransform ==
    /\ page = "editor"
    /\ activeTab \in {"move", "mask"}
    /\ babyTransform' = DefaultTransform
    /\ UNCHANGED <<libVars, adjustVars, filterVars, placeVars, page, selectedTheme,
                   originalBabyImageUrl, processedBabyImageUrl, activeTab,
                   maskStrokes, maskMode, maskBrushSize, editorStageWidth,
                   exportedImageUrl, containerWidth, babyImage,
                   placementDone, isDrawing, currentStrokePoints, placements>>

HandleMaskPointerDown(pos) ==
    /\ EditorReady
    /\ activeTab = "mask"
    /\ isDrawing' = TRUE
    /\ currentStrokePoints' = <<pos[1], pos[2]>>
    /\ UNCHANGED <<libVars, adjustVars, filterVars, placeVars, page, selectedTheme,
                   originalBabyImageUrl, processedBabyImageUrl,
                   babyTransform, activeTab, maskStrokes, maskMode,
                   maskBrushSize, editorStageWidth, exportedImageUrl,
                   containerWidth, babyImage, placementDone, placements>>

HandleMaskPointerMove(pos) ==
    /\ EditorReady
    /\ isDrawing /\ activeTab = "mask"
    /\ Len(currentStrokePoints) < 2 * (MaxMoves + 1)
    /\ currentStrokePoints' = LET l == ProjectToNative(pos[1], pos[2], babyTransform)
       IN  currentStrokePoints \o <<l[1], l[2]>>
    /\ UNCHANGED <<libVars, adjustVars, filterVars, placeVars, page, selectedTheme,
                   originalBabyImageUrl, processedBabyImageUrl,
                   babyTransform, activeTab, maskStrokes, maskMode,
                   maskBrushSize, editorStageWidth, exportedImageUrl,
                   containerWidth, babyImage, placementDone, isDrawing,
                   placements>>

HandleMaskPointerUp ==
    /\ EditorReady
    /\ isDrawing /\ activeTab = "mask"
    /\ isDrawing' = FALSE
    /\ IF Len(currentStrokePoints) > 0
       THEN /\ Len(maskStrokes) < MaxStrokes
            /\ maskStrokes' = Append(maskStrokes,
                   [points |-> currentStrokePoints,
                    brushSize |-> RDiv(maskBrushSize, babyTransform.scaleX),
                    type |-> maskMode])
            /\ currentStrokePoints' = <<>>
       ELSE UNCHANGED <<maskStrokes, currentStrokePoints>>
    /\ UNCHANGED <<libVars, adjustVars, filterVars, placeVars, page, selectedTheme,
                   originalBabyImageUrl, processedBabyImageUrl,
                   babyTransform, activeTab, maskMode, maskBrushSize,
                   editorStageWidth, exportedImageUrl, containerWidth,
                   babyImage, placementDone, placements>>

\* store.addMaskStroke: [...state.maskStrokes, stroke]
AddMaskStrokeFn(strokes, stroke) == Append(strokes, stroke)

\* (mutant) undo drops the oldest stroke
UndoMaskStrokeFn_Oldest(strokes) ==
    IF strokes = <<>> THEN <<>> ELSE Tail(strokes)

\* store.undoMaskStroke: state.maskStrokes.slice(0, -1)
UndoMaskStrokeFn(strokes) == SubSeq(strokes, 1, Len(strokes) - 1)

\* store.clearMaskStrokes: []
ClearMaskStrokesFn(strokes) == <<>>

\* the undo button of the mask tools
UndoMaskStroke ==
    /\ page = "editor"
    /\ maskStrokes # <<>>
    /\ maskStrokes' = UndoMaskStrokeFn(maskStrokes)
    /\ UNCHANGED <<libVars, adjustVars, filterVars, placeVars, page, selectedTheme,
                   originalBabyImageUrl, processedBabyImageUrl,
                   babyTransform, activeTab, maskMode, maskBrushSize,
                   editorStageWidth, exportedImageUrl, containerWidth,
                   babyImage, placementDone, isDrawing, currentStrokePoints,
                   placements>>

\* editor page export button: router.push(/export)
GoExport ==
    /\ page = "editor"
    /\ page' = "export"
    /\ UnmountEditor
    /\ UNCHANGED <<libVars, adjustVars, filterVars, placeVars, selectedTheme,
                   originalBabyImageUrl, processedBabyImageUrl,
                   babyTransform, activeTab, maskStrokes, maskMode,
                   maskBrushSize, editorStageWidth, exportedImageUrl,
                   placements>>

\* export page render effect: renderToCanvas(...) then setExportedImageUrl
RenderExport ==
    /\ page = "export"
    /\ selectedTheme # NoValue
    /\ processedBabyImageUrl # NoValue
    /\ exportedImageUrl = NoValue
    /\ exportedImageUrl' = RenderToCanvasFn(
           [theme |-> selectedTheme,
            babyImageUrl |-> processedBabyImageUrl,
            babyTransform |-> babyTransform,
            adjustValues |-> adjustValues,
            maskStrokes |-> maskStrokes,
            mode |-> "export",
            stageWidth |-> editorStageWidth])
    /\ UNCHANGED <<libVars, adjustVars, filterVars, placeVars, page, selectedTheme,
                   originalBabyImageUrl, processedBabyImageUrl,
                   babyTransform, activeTab, maskStrokes, maskMode,
                   maskBrushSize, editorStageWidth, containerWidth,
                   babyImage, placementDone, isDrawing, currentStrokePoints,
                   placements>>

\* export page TopBar back: router.back() to the editor, which mounts again
ExportBack(w) ==
    /\ page = "export"
    /\ MountEditor(w)
    /\ UNCHANGED <<libVars, adjustVars, filterVars, placeVars, selectedTheme,
                   originalBabyImageUrl, processedBabyImageUrl,
                   babyTransform, activeTab, maskStrokes, maskMode,
                   maskBrushSize, exportedImageUrl, placements>>

\* editor page back button: clearProcessedImage(); router.push(/photo)
HandleBack ==
    /\ page = "editor"
    /\ processedBabyImageUrl' = NoValue
    /\ babyTransform' = DefaultTransform
    /\ maskStrokes' = <<>>
    /\ adjustValues' = DefaultAdjust
    /\ activeFilter' = NoValue
    /\ exportedImageUrl' = NoValue
    /\ page' = "photo"
    /\ UnmountEditor
    /\ UNCHANGED <<libVars, filterVars, placeVars, selectedTheme,
                   originalBabyImageUrl, activeTab, maskMode, maskBrushSize,
                   editorStageWidth, placements>>

\* export page: resetAll(); router.push(/)
HandleCreateAnother ==
    /\ page = "export"
    /\ selectedTheme' = NoValue
    /\ originalBabyImageUrl' = NoValue
    /\ processedBabyImageUrl' = NoValue
    /\ babyTransform' = DefaultTransform
    /\ maskStrokes' = <<>>
    /\ maskMode' = "erase"
    /\ maskBrushSize' = R(20)
    /\ activeTab' = "move"
    /\ exportedImageUrl' = NoValue
    /\ editorStageWidth' = 1024
    /\ adjustValues' = DefaultAdjust
    /\ activeFilter' = NoValue
    /\ page' = "theme"
    /\ placements' = 0
    /\ UNCHANGED <<libVars, filterVars, placeVars, containerWidth, babyImage,
                   placementDone, isDrawing, currentStrokePoints>>


-----------------------------------------------------------------------------
(* Specification SpecEditor: the flow theme -> photo -> processing ->      *)
(* editor <-> export, with the subject moved in the editor.                *)

InitEditor ==
    /\ SessionIdle
    /\ FilterIdle
    /\ PlaceIdle
    /\ LibIdle

NextEditor ==
    \/ \E theme \in Themes : HandleThemeSelect(theme)
    \/ \E url \in Photos : HandlePhotoSelect(url)
    \/ \E w \in ContainerWidths : ProcessingDone(w)
    \/ ProcessingFailed
    \/ BabyImageLoaded
    \/ \E w \in ContainerWidths : HandleResize(w)
    \/ \E tab \in {"move", "adjust"} : SetActiveTab(tab)
    \/ \E pos \in DragPositions : HandleBabyDragEnd(pos)
    \/ \E t \in EditedTransforms : HandleBabyTransformEnd(t)
    \/ ResetBabyTransform
    \/ GoExport
    \/ RenderExport
    \/ \E w \in ContainerWidths : ExportBack(w)
    \/ HandleBack
    \/ HandleCreateAnother

SpecEditor == InitEditor /\ [][NextEditor]_vars

-----------------------------------------------------------------------------
(* Specification SpecMask: mask strokes recorded in the editor and         *)
(* replayed by the export render while the subject transform changes.      *)

\* the editor showing Theme1 with the cut-out of photo1 loaded and placed
InitMask ==
    /\ page = "editor"
    /\ selectedTheme = Theme1
    /\ originalBabyImageUrl = Photo1
    /\ processedBabyImageUrl = Cutout(Photo1)
    /\ babyTransform = CalculateInitialPlacementFn(Theme1.babyPlacement,
                           StageDims(Theme1, 400)[1], StageDims(Theme1, 400)[2],
                           R(100), R(50))
    /\ activeTab = "move"
    /\ maskStrokes = <<>>
    /\ maskMode = "erase"
    /\ maskBrushSize = R(20)
    /\ editorStageWidth = 400
    /\ exportedImageUrl = NoValue
    /\ containerWidth = 400
    /\ babyImage = Cutout(Photo1)
    /\ placementDone = TRUE
    /\ isDrawing = FALSE
    /\ currentStrokePoints = <<>>
    /\ placements = 1
    /\ adjustValues = SetSelectedThemeAdjust(Theme1)
    /\ activeFilter = NoValue
    /\ FilterIdle
    /\ PlaceIdle
    /\ LibIdle

NextMask ==
    \/ \E tab \in {"move", "mask"} : SetActiveTab(tab)
    \/ \E mode \in {"erase", "restore"} : SetMaskMode(mode)
    \/ \E pos \in DragPositions : HandleBabyDragEnd(pos)
    \/ \E t \in EditedTransforms : HandleBabyTransformEnd(t)
    \/ \E pos \in PointerPositions : HandleMaskPointerDown(pos)
    \/ \E pos \in PointerPositions : HandleMaskPointerMove(pos)
    \/ HandleMaskPointerUp
    \/ UndoMaskStroke
    \/ GoExport
    \/ RenderExport
    \/ ExportBack(400)
    \/ BabyImageLoaded

SpecMask == InitMask /\ [][NextMask]_vars

-----------------------------------------------------------------------------
(* Claims about the mask projector, the shadow and the placement effect.    *)

\* the region a replayed stroke touches: an erase stroke is a round-capped line
\* of a width along a path, a restore stroke the area its path encloses
StrokeRegion(cmd) ==
    IF cmd.type = "erase" THEN <<"erase", cmd.path, cmd.lineWidth>>
    ELSE <<"restore", cmd.path>>

\* C1 (mask stroke stability): a recorded stroke is replayed with its stored
\* points and brush size as they are, so the native-space region erased or
\* restored is the same for every transform T2 in force at render time.
C1_MaskStrokeStability ==
    (page = "export" /\ exportedImageUrl # NoValue) =>
        LET strokes == exportedImageUrl.config.maskStrokes
        IN  \A i \in 1..Len(strokes) :
               /\ StrokeRegion(exportedImageUrl.mask[i]) =
                      StrokeRegion([type |-> strokes[i].type,
                                    lineWidth |-> strokes[i].brushSize,
                                    path |-> [k \in 1..(Len(strokes[i].points) \div 2) |->
                                                 <<strokes[i].points[2 * k - 1],
                                                   strokes[i].points[2 * k]>>]])
               /\ \A t2 \in EditedTransforms \cup {DefaultTransform} :
                      StrokeRegion(ReplayStroke(strokes[i], t2)) =
                          StrokeRegion(exportedImageUrl.mask[i])

\* C2 (preview/export shadow parity): with the shadow enabled, its displacement
\* from the subject as a fraction of the canvas width is the same in the
\* CanvasStage preview and in the export of renderToCanvas.
C2_ShadowParity ==
    (page = "export" /\ exportedImageUrl # NoValue
        /\ exportedImageUrl.config.theme.shadow.enabled) =>
        LET cfg == exportedImageUrl.config
            pv == CanvasStageShadowFn(cfg.theme, cfg.stageWidth, cfg.babyTransform,
                                      cfg.babyImageUrl)
            ex == exportedImageUrl
        IN  /\ RDiv(RSub(pv.x, cfg.babyTransform.x), R(cfg.stageWidth)) =
                   RDiv(RSub(ex.shadow.tx, ex.baby.tx), R(ex.outWidth))
            /\ RDiv(RSub(pv.y, cfg.babyTransform.y), R(cfg.stageWidth)) =
                   RDiv(RSub(ex.shadow.ty, ex.baby.ty), R(ex.outWidth))

\* C10 (placement runs once): for one (theme, subject) pair the result of
\* calculateInitialPlacement is written to the session transform at most once,
\* whatever mounts, unmounts, resizes, tab changes and drags happen.
C10_PlacementOnce == placements <= 1

-----------------------------------------------------------------------------
(* One renderToCanvas call, step by step: the call runs to its next await  *)
(* (an image load) in one step.                                            *)

\* insertion of one layer behind the layers whose zIndex is not larger
RECURSIVE InsertLayer(_, _)
InsertLayer(sorted, l) ==
    IF sorted = <<>> THEN <<l>>
    ELSE IF Head(sorted).zIndex <= l.zIndex
         THEN <<Head(sorted)>> \o InsertLayer(Tail(sorted), l)
         ELSE <<l>> \o sorted

\* (mutant) the layers are drawn in the order the theme lists them
SortedLayers_Unsorted(layers) == layers

\* [...theme.layers].sort((a, b) => a.zIndex - b.zIndex), a stable sort
RECURSIVE SortedLayers(_)
SortedLayers(layers) ==
    IF layers = <<>> THEN <<>>
    ELSE InsertLayer(SortedLayers(SubSeq(layers, 1, Len(layers) - 1)),
                     layers[Len(layers)])

BelowBaby(theme) ==
    SelectSeq(SortedLayers(theme.layers), LAMBDA l : l.zIndex < theme.babyZIndex)
AboveBaby(theme) ==
    SelectSeq(SortedLayers(theme.layers), LAMBDA l : l.zIndex > theme.babyZIndex)

\* ctx.drawImage(img, 0, 0, outWidth, outHeight) of one layer
LayerDraw(layer, out) ==
    [op |-> "layer", url |-> layer.url, zIndex |-> layer.zIndex,
     w |-> out.outWidth, h |-> out.outHeight]

\* the rejection of loadImage(url), which renderToCanvas does not catch
LoadError(url) == [ok |-> FALSE, error |-> <<"Failed to load image", url>>]

\* the layers a theme may list, the subject under babyZIndex 10
LayerBg == [url |-> "bg", zIndex |-> 0, visible |-> TRUE]
LayerMid == [url |-> "mid", zIndex |-> 5, visible |-> TRUE]
LayerAtBaby == [url |-> "atBaby", zIndex |-> 10, visible |-> TRUE]
LayerHidden == [url |-> "hidden", zIndex |-> 15, visible |-> FALSE]
LayerFg == [url |-> "fg", zIndex |-> 20, visible |-> TRUE]
RenderLayerLists ==
    {<<>>, <<LayerBg, LayerFg>>, <<LayerFg, LayerMid, LayerBg>>,
     <<LayerBg, LayerAtBaby, LayerHidden, LayerFg>>}

RenderSizes == {<<1000, 1500>>, <<3000, 4000>>, <<2500, 3000>>, <<4000, 3000>>}

RenderShadows ==
    {[enabled |-> TRUE, angle |-> R(0), distance |-> R(20),
      blur |-> R(40), opacity |-> Frac(28, 100)],
     [enabled |-> FALSE, angle |-> R(90), distance |-> R(30),
      blur |-> R(40), opacity |-> Frac(1, 2)],
     [enabled |-> FALSE, angle |-> R(180), distance |-> R(20),
      blur |-> R(10), opacity |-> R(1)]}

RenderThemes ==
    {[id |-> "r", width |-> size[1], height |-> size[2], babyZIndex |-> 10,
      layers |-> layers, shadow |-> shadow] :
        size \in RenderSizes, layers \in RenderLayerLists, shadow \in RenderShadows}

\* stageWidth: 0 stands for the omitted optional field
RenderConfigs ==
    [theme : RenderThemes,
     babyImageUrl : {"cutout"},
     babyTransform : {[x |-> R(100), y |-> R(280), scaleX |-> R(2),
                       scaleY |-> R(2), rotation |-> R(0)],
                      [x |-> R(10), y |-> R(20), scaleX |-> R(2),
                       scaleY |-> R(4), rotation |-> R(90)]},
     maskStrokes : {<<>>},
     mode : {"preview", "export"},
     stageWidth : {0, 400, 366}]

\* the urls whose image fails to load
BrokenSets == {{}, {"bg"}, {"fg"}, {"cutout"}}

\* renderToCanvas(config) is called: the canvas is made, the layers are sorted
RenderToCanvas(config, broken) ==
    /\ rpc = "idle"
    /\ rconfig' = config
    /\ rbroken' = broken
    /\ rpc' = "below"
    /\ ridx' = 1
    /\ rdraws' = <<>>
    /\ rresult' = NoValue
    /\ UNCHANGED <<filterVars, placeVars, sessionVars, segVars, cropVars, historyVars, extVars>>

\* Step 1, one turn of the loop: await loadImage(layer.url); ctx.drawImage
DrawBelowLayer ==
    /\ rpc = "below"
    /\ ridx <= Len(BelowBaby(rconfig.theme))
    /\ LET layer == BelowBaby(rconfig.theme)[ridx]
       IN  IF layer.url \in rbroken
           THEN /\ rpc' = "failed"
                /\ rresult' = LoadError(layer.url)
                /\ UNCHANGED <<ridx, rdraws>>
           ELSE /\ rdraws' = Append(rdraws, LayerDraw(layer, RenderToCanvasFn(rconfig)))
                /\ ridx' = ridx + 1
                /\ UNCHANGED <<rpc, rresult>>
    /\ UNCHANGED <<rconfig, rbroken>>
    /\ UNCHANGED <<filterVars, placeVars, sessionVars, segVars, cropVars, historyVars, extVars>>

\* Steps 2 to 4: await loadImage(babyImageUrl); mask and filter; the shadow
\* draw if theme.shadow.enabled; the subject draw
DrawBaby ==
    /\ rpc = "below"
    /\ ridx > Len(BelowBaby(rconfig.theme))
    /\ IF rconfig.babyImageUrl \in rbroken
       THEN /\ rpc' = "failed"
            /\ rresult' = LoadError(rconfig.babyImageUrl)
            /\ UNCHANGED <<ridx, rdraws>>
       ELSE LET out == RenderToCanvasFn(rconfig)
            IN  /\ rdraws' =
                       rdraws
                       \o (IF rconfig.theme.shadow.enabled
                           THEN <<[op |-> "shadow", ctx |-> out.shadow]>>
                           ELSE <<>>)
                       \o <<[op |-> "baby", ctx |-> out.baby]>>
                /\ rpc' = "above"
                /\ ridx' = 1
                /\ UNCHANGED rresult
    /\ UNCHANGED <<rconfig, rbroken>>
    /\ UNCHANGED <<filterVars, placeVars, sessionVars, segVars, cropVars, historyVars, extVars>>

\* Step 5, one turn of the loop: await loadImage(layer.url); ctx.drawImage
DrawAboveLayer ==
    /\ rpc = "above"
    /\ ridx <= Len(AboveBaby(rconfig.theme))
    /\ LET layer == AboveBaby(rconfig.theme)[ridx]
       IN  IF layer.url \in rbroken
           THEN /\ rpc' = "failed"
                /\ rresult' = LoadError(layer.url)
                /\ UNCHANGED <<ridx, rdraws>>
           ELSE /\ rdraws' = Append(rdraws, LayerDraw(layer, RenderToCanvasFn(rconfig)))
                /\ ridx' = ridx + 1
                /\ UNCHANGED <<rpc, rresult>>
    /\ UNCHANGED <<rconfig, rbroken>>
    /\ UNCHANGED <<filterVars, placeVars, sessionVars, segVars, cropVars, historyVars, extVars>>

\* Step 6 and the return: the watermark in export mode, canvas.toDataURL
RenderFinish ==
    /\ rpc = "above"
    /\ ridx > Len(AboveBaby(rconfig.theme))
    /\ rdraws' =
           rdraws
           \o (IF rconfig.mode = "export" THEN <<[op |-> "watermark"]>> ELSE <<>>)
           \o <<[op |-> "encode"]>>
    /\ rpc' = "done"
    /\ rresult' = [ok |-> TRUE,
                   outWidth |-> RenderToCanvasFn(rconfig).outWidth,
                   outHeight |-> RenderToCanvasFn(rconfig).outHeight]
    /\ UNCHANGED <<rconfig, rbroken, ridx>>
    /\ UNCHANGED <<filterVars, placeVars, sessionVars, segVars, cropVars, historyVars, extVars>>

\* the caller's await resumes with the data URL or in its catch block; the
\* next call starts from a fresh canvas
RenderSettled ==
    /\ rpc \in {"done", "failed"}
    /\ rconfig' = NoValue
    /\ rbroken' = {}
    /\ rpc' = "idle"
    /\ ridx' = 0
    /\ rdraws' = <<>>
    /\ rresult' = NoValue
    /\ UNCHANGED <<filterVars, placeVars, sessionVars, segVars, cropVars, historyVars, extVars>>

-----------------------------------------------------------------------------
(* Specification SpecRender: renderToCanvas calls over bounded themes.     *)

InitRender ==
    /\ RenderIdle
    /\ SegIdle
    /\ CropIdle
    /\ HistoryIdle
    /\ ExportIdle
    /\ AdminIdle
    /\ FilterIdle
    /\ PlaceIdle
    /\ SessionIdle

NextRender ==
    \/ \E config \in RenderConfigs, broken \in BrokenSets :
           RenderToCanvas(config, broken)
    \/ DrawBelowLayer
    \/ DrawBaby
    \/ DrawAboveLayer
    \/ RenderFinish
    \/ RenderSettled

SpecRender == InitRender /\ [][NextRender]_vars

-----------------------------------------------------------------------------
(* Claims about renderToCanvas.                                             *)

\* C11 (resolution policy): the output size of a call is round(native *
\* scaleFactor) per axis with scaleFactor = min(1, cap / max(width, height)),
\* cap 2048 in export mode and 1200 in preview mode; it exceeds neither the
\* cap nor the native size in either dimension; a 3000x4000 theme exports at
\* 1536x2048 and previews at 900x1200.
C11_ResolutionPolicy ==
    rpc \notin {"idle"} =>
        LET w == rconfig.theme.width
            h == rconfig.theme.height
            cap == IF rconfig.mode = "export" THEN 2048 ELSE 1200
            s == RMin(R(1), Frac(cap, IntMax(w, h)))
            out == RenderToCanvasFn(rconfig)
        IN  /\ out.outWidth = MathRound(RMul(R(w), s))
            /\ out.outHeight = MathRound(RMul(R(h), s))
            /\ out.outWidth <= cap /\ out.outHeight <= cap
            /\ out.outWidth <= w /\ out.outHeight <= h
            /\ (w = 3000 /\ h = 4000 /\ rconfig.mode = "export")
                   => (out.outWidth = 1536 /\ out.outHeight = 2048)
            /\ (w = 3000 /\ h = 4000 /\ rconfig.mode = "preview")
                   => (out.outWidth = 900 /\ out.outHeight = 1200)
            /\ rpc = "done" =>
                   (rresult.outWidth = out.outWidth /\ rresult.outHeight = out.outHeight)

C11_Witness ==
    /\ rpc = "done"
    /\ rconfig.theme.width = 3000 /\ rconfig.theme.height = 4000
    /\ rconfig.mode = "export"
    /\ rresult.outWidth = 1536 /\ rresult.outHeight = 2048

\* C12 (aspect ratio), as claimed: the output dimensions preserve the theme's
\* aspect ratio exactly, outWidth * theme.height = outHeight * theme.width.
C12_AspectRatioExact ==
    rpc = "done" =>
        rresult.outWidth * rconfig.theme.height =
            rresult.outHeight * rconfig.theme.width

\* C12 (aspect ratio), amended: the output dimensions preserve the theme's
\* aspect ratio up to the rounding of each axis: outWidth * theme.height and
\* outHeight * theme.width differ by at most max(width, height) / 2, and are
\* equal when the theme is not scaled down.
C12_AspectRatioRounded ==
    rpc = "done" =>
        LET w == rconfig.theme.width
            h == rconfig.theme.height
            cap == IF rconfig.mode = "export" THEN 2048 ELSE 1200
            diff == rresult.outWidth * h - rresult.outHeight * w
        IN  /\ 2 * Abs(diff) <= IntMax(w, h)
            /\ IntMax(w, h) <= cap => diff = 0

C12_Witness ==
    /\ rpc = "done"
    /\ rconfig.theme.width = 2500 /\ rconfig.theme.height = 3000
    /\ rconfig.mode = "export"
    /\ rresult.outWidth = 1707 /\ rresult.outHeight = 2048
    /\ rresult.outWidth * 3000 # rresult.outHeight * 2500

\* the context state of the shadow draw and of the subject draw of a call
ShadowDraws == SelectSeq(rdraws, LAMBDA e : e.op = "shadow")
BabyDraws == SelectSeq(rdraws, LAMBDA e : e.op = "baby")

\* C13 (upscale policy): with upscale = outWidth / stageWidth (1 when
\* stageWidth is omitted), the subject draw uses translation and both scale
\* axes multiplied by upscale, the shadow draw the same with the shadow offset
\* multiplied by upscale added to the translation, and the blur of the shadow
\* draw is theme.shadow.blur whatever upscale is.
C13_UpscalePolicy ==
    rpc \in {"above", "done"} =>
        LET t == rconfig.babyTransform
            sh == rconfig.theme.shadow
            outWidth == RenderToCanvasFn(rconfig).outWidth
            u == IF rconfig.stageWidth = 0 THEN R(1)
                 ELSE Frac(outWidth, rconfig.stageWidth)
            off == CalculateShadowOffsetFn(sh)
        IN  /\ Len(BabyDraws) = 1
            /\ BabyDraws[1].ctx =
                   [tx |-> RMul(t.x, u), ty |-> RMul(t.y, u),
                    rotation |-> t.rotation,
                    scaleX |-> RMul(t.scaleX, u), scaleY |-> RMul(t.scaleY, u)]
            /\ sh.enabled =>
                   /\ Len(ShadowDraws) = 1
                   /\ ShadowDraws[1].ctx.tx = RMul(RAdd(t.x, off.offsetX), u)
                   /\ ShadowDraws[1].ctx.ty = RMul(RAdd(t.y, off.offsetY), u)
                   /\ ShadowDraws[1].ctx.scaleX = RMul(t.scaleX, u)
                   /\ ShadowDraws[1].ctx.scaleY = RMul(t.scaleY, u)
                   /\ ShadowDraws[1].ctx.rotation = t.rotation
                   /\ ShadowDraws[1].ctx.blur = sh.blur

\* a 3000x4000 export from a 400 wide stage: upscale 1536/400 = 96/25
C13_Witness ==
    /\ rpc = "done"
    /\ rconfig.mode = "export"
    /\ rconfig.theme.width = 3000
    /\ rconfig.stageWidth = 400
    /\ rconfig.babyTransform.x = R(100)
    /\ rconfig.theme.shadow.enabled
    /\ Len(ShadowDraws) = 1
    /\ ShadowDraws[1].ctx.tx = Frac(120 * 96, 25)
    /\ ShadowDraws[1].ctx.blur = R(40)
    /\ BabyDraws[1].ctx.scaleX = Frac(2 * 96, 25)

\* the place of a draw event in the fixed order
DrawRank(e, theme) ==
    CASE e.op = "layer" /\ e.zIndex < theme.babyZIndex -> 1
      [] e.op = "shadow" -> 2
      [] e.op = "baby" -> 3
      [] e.op = "layer" /\ e.zIndex > theme.babyZIndex -> 4
      [] e.op = "watermark" -> 5
      [] e.op = "encode" -> 6
      [] OTHER -> 0

CountDraws(op) == Len(SelectSeq(rdraws, LAMBDA e : e.op = op))

\* C14 (fixed draw order): in a completed call the draw events are the layers
\* below babyZIndex in ascending zIndex, the shadow (if and only if
\* theme.shadow.enabled), the subject, the layers above babyZIndex in
\* ascending zIndex, the watermark (if and only if mode is export), and the
\* encoding last.
C14_DrawOrder ==
    rpc = "done" =>
        LET theme == rconfig.theme
            n == Len(rdraws)
        IN  /\ \A i \in 1..n : DrawRank(rdraws[i], theme) # 0
            /\ \A i \in 1..n : \A j \in (i + 1)..n :
                   /\ DrawRank(rdraws[i], theme) <= DrawRank(rdraws[j], theme)
                   /\ (rdraws[i].op = "layer" /\ rdraws[j].op = "layer")
                          => rdraws[i].zIndex <= rdraws[j].zIndex
            /\ \A k \in 1..Len(theme.layers) :
                   theme.layers[k].zIndex # theme.babyZIndex =>
                       Len(SelectSeq(rdraws, LAMBDA e :
                               e.op = "layer" /\ e.url = theme.layers[k].url)) = 1
            /\ CountDraws("shadow") = (IF theme.shadow.enabled THEN 1 ELSE 0)
            /\ CountDraws("baby") = 1
            /\ CountDraws("watermark") = (IF rconfig.mode = "export" THEN 1 ELSE 0)
            /\ CountDraws("encode") = 1
            /\ rdraws[n].op = "encode"

\* an export of the theme that lists its layers as fg, mid, bg
C14_Witness ==
    /\ rpc = "done"
    /\ rconfig.mode = "export"
    /\ rconfig.theme.shadow.enabled
    /\ rconfig.theme.layers = <<LayerFg, LayerMid, LayerBg>>
    /\ [i \in 1..Len(rdraws) |-> rdraws[i].op] =
           <<"layer", "layer", "shadow", "baby", "layer", "watermark", "encode">>
    /\ rdraws[1].url = "bg" /\ rdraws[2].url = "mid" /\ rdraws[5].url = "fg"

\* C15 (layer-load error policy): when the image of a theme layer fails to
\* load and the subject's image loads, the call does not fail: it completes
\* with a frame that holds every remaining layer and the subject.
C15_LayerLoadErrorPolicy ==
    (rpc \in {"done", "failed"} /\ rconfig.babyImageUrl \notin rbroken) =>
        /\ rpc = "done"
        /\ CountDraws("baby") = 1
        /\ \A k \in 1..Len(rconfig.theme.layers) :
               LET layer == rconfig.theme.layers[k]
               IN  (layer.url \notin rbroken /\ layer.zIndex # rconfig.theme.babyZIndex)
                       => \E i \in 1..Len(rdraws) :
                              rdraws[i].op = "layer" /\ rdraws[i].url = layer.url

-----------------------------------------------------------------------------
(* Background removal, lib/segmentation: the session singleton of           *)
(* getSession and the removeBackground calls that share it.  A call runs to *)
(* its next await in one step; a promise reaction is a step of its own.     *)

MaxCalls == 3

\* thrown values: Error objects carry a message, other values do not
DecodeError == [isError |-> TRUE, message |-> "Failed to load image"]
CreateErrors == {[isError |-> TRUE, message |-> "no available backend"],
                 [isError |-> FALSE, message |-> "undefined"]}
RunErrors == {[isError |-> TRUE, message |-> "inference failed"]}

\* the data URL of the cropped cut-out
CutoutUrl == [png |-> "cutout"]

\* (mutant) every getSession call creates a session
GetSessionCreates_Always(promise) == TRUE

\* getSession: if (!sessionPromise)
GetSessionCreates(promise) == promise = NoValue

\* (mutant) the rejected promise stays cached
OnCreateRejected_Keep(promise) == promise

\* getSession, the catch handler: sessionPromise = null
OnCreateRejected(promise) == NoValue

\* (mutant) error.message is read without the instanceof check
ErrorMessage_Unchecked(error) == error.message

\* removeBackground: error instanceof Error ? error.message : "Background removal failed"
ErrorMessage(error) ==
    IF error.isError THEN error.message ELSE "Background removal failed"

\* removeBackground, the catch block
FailureResult(error) ==
    [success |-> FALSE, imageUrl |-> NoValue, error |-> ErrorMessage(error)]

\* removeBackground, the return of the try block
SuccessResult(url) == [success |-> TRUE, imageUrl |-> url]

\* removeBackground(imageDataUrl) is called and suspends in loadImage
RemoveBackground ==
    /\ Len(calls) < MaxCalls
    /\ calls' = Append(calls, [pc |-> "loadImage", awaits |-> NoValue,
                               thrown |-> NoValue, result |-> NoValue])
    /\ UNCHANGED <<sessionPromise, creations>>
    /\ UNCHANGED <<filterVars, placeVars, sessionVars, renderVars, cropVars, historyVars, extVars>>

\* img.onerror: loadImage rejects, runInference throws, the catch block returns
ImageLoadFails(c) ==
    /\ c \in 1..Len(calls)
    /\ calls[c].pc = "loadImage"
    /\ calls' = [calls EXCEPT ![c].pc = "returned",
                              ![c].thrown = DecodeError,
                              ![c].result = FailureResult(DecodeError)]
    /\ UNCHANGED <<sessionPromise, creations>>
    /\ UNCHANGED <<filterVars, placeVars, sessionVars, renderVars, cropVars, historyVars, extVars>>

\* img.onload: the tensor is built, getSession() is called and awaited
ImageLoaded(c) ==
    /\ c \in 1..Len(calls)
    /\ calls[c].pc = "loadImage"
    /\ IF GetSessionCreates(sessionPromise)
       THEN /\ creations' = Append(creations, [raw |-> "pending",
                                               derived |-> "pending",
                                               reason |-> NoValue])
            /\ sessionPromise' = [creation |-> Len(creations) + 1]
       ELSE UNCHANGED <<sessionPromise, creations>>
    /\ calls' = [calls EXCEPT ![c].pc = "awaitSession",
                              ![c].awaits = sessionPromise']
    /\ UNCHANGED <<filterVars, placeVars, sessionVars, renderVars, cropVars, historyVars, extVars>>

\* InferenceSession.create resolves
CreateFulfills(k) ==
    /\ k \in 1..Len(creations)
    /\ creations[k].raw = "pending"
    /\ creations' = [creations EXCEPT ![k].raw = "fulfilled"]
    /\ UNCHANGED <<sessionPromise, calls>>
    /\ UNCHANGED <<filterVars, placeVars, sessionVars, renderVars, cropVars, historyVars, extVars>>

\* InferenceSession.create rejects
CreateRejects(k, error) ==
    /\ k \in 1..Len(creations)
    /\ creations[k].raw = "pending"
    /\ creations' = [creations EXCEPT ![k].raw = "rejected", ![k].reason = error]
    /\ UNCHANGED <<sessionPromise, calls>>
    /\ UNCHANGED <<filterVars, placeVars, sessionVars, renderVars, cropVars, historyVars, extVars>>

\* the reaction of .catch(...): a fulfilment passes through; a rejection
\* clears sessionPromise and is thrown again
CatchReaction(k) ==
    /\ k \in 1..Len(creations)
    /\ creations[k].raw # "pending"
    /\ creations[k].derived = "pending"
    /\ IF creations[k].raw = "fulfilled"
       THEN /\ creations' = [creations EXCEPT ![k].derived = "fulfilled"]
            /\ UNCHANGED sessionPromise
       ELSE /\ creations' = [creations EXCEPT ![k].derived = "rejected"]
            /\ sessionPromise' = OnCreateRejected(sessionPromise)
    /\ UNCHANGED calls
    /\ UNCHANGED <<filterVars, placeVars, sessionVars, renderVars, cropVars, historyVars, extVars>>

\* await getSession() resumes: session.run is called, or the rejection is
\* caught by removeBackground
SessionAwaited(c) ==
    /\ c \in 1..Len(calls)
    /\ calls[c].pc = "awaitSession"
    /\ creations[calls[c].awaits.creation].derived # "pending"
    /\ LET k == calls[c].awaits.creation
       IN  IF creations[k].derived = "fulfilled"
           THEN calls' = [calls EXCEPT ![c].pc = "run"]
           ELSE calls' = [calls EXCEPT ![c].pc = "returned",
                                       ![c].thrown = creations[k].reason,
                                       ![c].result = FailureResult(creations[k].reason)]
    /\ UNCHANGED <<sessionPromise, creations>>
    /\ UNCHANGED <<filterVars, placeVars, sessionVars, renderVars, cropVars, historyVars, extVars>>

\* session.run resolves: mask, crop, toDataURL, return { success: true, ... }
RunFulfills(c) ==
    /\ c \in 1..Len(calls)
    /\ calls[c].pc = "run"
    /\ calls' = [calls EXCEPT ![c].pc = "returned",
                              ![c].result = SuccessResult(CutoutUrl)]
    /\ UNCHANGED <<sessionPromise, creations>>
    /\ UNCHANGED <<filterVars, placeVars, sessionVars, renderVars, cropVars, historyVars, extVars>>

\* session.run rejects
RunRejects(c, error) ==
    /\ c \in 1..Len(calls)
    /\ calls[c].pc = "run"
    /\ calls' = [calls EXCEPT ![c].pc = "returned",
                              ![c].thrown = error,
                              ![c].result = FailureResult(error)]
    /\ UNCHANGED <<sessionPromise, creations>>
    /\ UNCHANGED <<filterVars, placeVars, sessionVars, renderVars, cropVars, historyVars, extVars>>

-----------------------------------------------------------------------------
(* Specification SpecSegmentation: interleaved removeBackground calls.     *)

InitSegmentation ==
    /\ SegIdle
    /\ RenderIdle
    /\ CropIdle
    /\ HistoryIdle
    /\ ExportIdle
    /\ AdminIdle
    /\ FilterIdle
    /\ PlaceIdle
    /\ SessionIdle

NextSegmentation ==
    \/ RemoveBackground
    \/ \E c \in 1..MaxCalls : ImageLoadFails(c)
    \/ \E c \in 1..MaxCalls : ImageLoaded(c)
    \/ \E k \in 1..MaxCalls : CreateFulfills(k)
    \/ \E k \in 1..MaxCalls, error \in CreateErrors : CreateRejects(k, error)
    \/ \E k \in 1..MaxCalls : CatchReaction(k)
    \/ \E c \in 1..MaxCalls : SessionAwaited(c)
    \/ \E c \in 1..MaxCalls : RunFulfills(c)
    \/ \E c \in 1..MaxCalls, error \in RunErrors : RunRejects(c, error)

SpecSegmentation == InitSegmentation /\ [][NextSegmentation]_vars

-----------------------------------------------------------------------------
(* Claims about background removal.                                         *)

\* the call c reaches getSession in this step
ReachesGetSession(c) ==
    /\ c \in 1..Len(calls)
    /\ calls[c].pc = "loadImage"
    /\ calls'[c].pc = "awaitSession"

\* C16 (inference singleton): at most one InferenceSession.create is in flight
\* at a time; a call that reaches getSession while an initialization is pending
\* or has succeeded receives the promise of that initialization and creates
\* nothing; after a successful initialization no session is created again.
C16_InferenceSingleton ==
    [][ /\ Cardinality({k \in 1..Len(creations') : creations'[k].raw = "pending"}) <= 1
        /\ \A c \in 1..Len(calls) : \A k \in 1..Len(creations) :
               (ReachesGetSession(c) /\ creations[k].raw \in {"pending", "fulfilled"})
                   => /\ calls'[c].awaits = [creation |-> k]
                      /\ creations' = creations
        /\ (\E k \in 1..Len(creations) : creations[k].raw = "fulfilled")
               => Len(creations') = Len(creations)
      ]_vars

\* three calls share the one initialization, which succeeded
C16_Witness ==
    /\ Len(calls) = 3
    /\ Len(creations) = 1
    /\ creations[1].derived = "fulfilled"
    /\ \A c \in 1..3 : calls[c].awaits = [creation |-> 1] /\ calls[c].pc = "run"

\* C17 (inference init retry): once the rejection of a session creation has
\* been handled sessionPromise no longer holds it; every call that awaited the
\* failed initialization returns a failure result; and a call that reaches
\* getSession after the failure starts a new InferenceSession.create.
C17_InitRetry ==
    [][ /\ \A k \in 1..Len(creations') :
               creations'[k].derived = "rejected" => sessionPromise' # [creation |-> k]
        /\ \A c \in 1..Len(calls') :
               (calls'[c].pc = "returned" /\ calls'[c].awaits # NoValue
                   /\ creations'[calls'[c].awaits.creation].raw = "rejected")
                   => /\ calls'[c].result.success = FALSE
                      /\ calls'[c].result.imageUrl = NoValue
        /\ \A c \in 1..Len(calls) :
               (ReachesGetSession(c) /\ creations # <<>>
                   /\ creations[Len(creations)].derived = "rejected")
                   => /\ Len(creations') = Len(creations) + 1
                      /\ creations'[Len(creations')].raw = "pending"
                      /\ calls'[c].awaits = [creation |-> Len(creations')]
      ]_vars

\* two calls shared a failed initialization and returned failures; the third
\* call started a second creation
C17_Witness ==
    /\ Len(calls) = 3
    /\ Len(creations) = 2
    /\ creations[1].derived = "rejected"
    /\ sessionPromise = [creation |-> 2]
    /\ \A c \in 1..2 : /\ calls[c].awaits = [creation |-> 1]
                       /\ calls[c].pc = "returned"
                       /\ calls[c].result.success = FALSE
    /\ calls[3].awaits = [creation |-> 2]

\* C18 (removeBackground never rejects): a call that has returned after a
\* decode, initialization or inference failure holds {success: false,
\* imageUrl: null, error: message}, a call that returned without a failure
\* holds {success: true, imageUrl: the cut-out}; success is true exactly when
\* imageUrl is the cut-out.
C18_NeverRejects ==
    \A c \in 1..Len(calls) :
        /\ calls[c].pc \in {"loadImage", "awaitSession", "run", "returned"}
        /\ calls[c].pc # "returned" => calls[c].result = NoValue
        /\ calls[c].pc = "returned" =>
               /\ calls[c].result.success = (calls[c].result.imageUrl = CutoutUrl)
               /\ calls[c].result.success = (calls[c].thrown = NoValue)
               /\ calls[c].thrown # NoValue =>
                      calls[c].result =
                          [success |-> FALSE, imageUrl |-> NoValue,
                           error |-> IF calls[c].thrown.isError
                                     THEN calls[c].thrown.message
                                     ELSE "Background removal failed"]

\* one call failed to decode, one awaited an initialization that rejected with
\* a value that is not an Error, one failed in session.run
C18_Witness ==
    /\ Len(calls) = 3
    /\ \A c \in 1..3 : calls[c].pc = "returned" /\ calls[c].result.success = FALSE
    /\ \E c \in 1..3 : calls[c].thrown = DecodeError
    /\ \E c \in 1..3 : /\ calls[c].thrown \in CreateErrors
                       /\ calls[c].result.error = "Background removal failed"
    /\ \E c \in 1..3 : calls[c].thrown \in RunErrors

-----------------------------------------------------------------------------
(* cropTransparentSpace, lib/segmentation.                                  *)

threshold == 5
CropPadding == 5
MaxCropLen == 7

\* (mutant) a pixel at the threshold counts as content
AboveThreshold_Inclusive(alpha) == alpha >= threshold

\* if (alpha > threshold)
AboveThreshold(alpha) == alpha > threshold

\* the scan of the pixels from index i on, in row-major order; box holds
\* minX, minY, maxX, maxY and found as the loop has them
RECURSIVE CropScan(_, _, _)
CropScan(canvas, i, box) ==
    IF i > canvas.w * canvas.h THEN box
    ELSE LET x == (i - 1) % canvas.w
             y == (i - 1) \div canvas.w
         IN  IF AboveThreshold(canvas.alpha[i])
             THEN CropScan(canvas, i + 1,
                           [found |-> TRUE,
                            minX |-> IF x < box.minX THEN x ELSE box.minX,
                            maxX |-> IF x > box.maxX THEN x ELSE box.maxX,
                            minY |-> IF y < box.minY THEN y ELSE box.minY,
                            maxY |-> IF y > box.maxY THEN y ELSE box.maxY])
             ELSE CropScan(canvas, i + 1, box)

\* cropTransparentSpace(sourceCanvas, padding): the source canvas itself, or
\* the region of it copied to the new canvas
CropTransparentSpaceFn(canvas, padding) ==
    LET box == CropScan(canvas, 1,
                        [found |-> FALSE, minX |-> canvas.w, minY |-> canvas.h,
                         maxX |-> 0, maxY |-> 0])
        minX == IntMax(0, box.minX - padding)
        minY == IntMax(0, box.minY - padding)
        maxX == IntMin(canvas.w - 1, box.maxX + padding)
        maxY == IntMin(canvas.h - 1, box.maxY + padding)
    IN  IF ~box.found
        THEN [source |-> TRUE, canvas |-> canvas]
        ELSE [source |-> FALSE, minX |-> minX, minY |-> minY,
              maxX |-> maxX, maxY |-> maxY,
              cropW |-> maxX - minX + 1, cropH |-> maxY - minY + 1]

\* canvases: horizontal and vertical strips and a small square, alpha values
\* around the threshold
CropAlphas == {0, 5, 6}
CropSizes == {<<n, 1>> : n \in 1..MaxCropLen} \cup {<<1, n>> : n \in 2..MaxCropLen}
                 \cup {<<2, 2>>}
CropCanvases ==
    UNION {[w : {size[1]}, h : {size[2]}, alpha : [1..(size[1] * size[2]) -> CropAlphas]] :
              size \in CropSizes}

InitCrop ==
    /\ ccanvas \in CropCanvases
    /\ cout = NoValue
    /\ RenderIdle
    /\ SegIdle
    /\ HistoryIdle
    /\ ExportIdle
    /\ AdminIdle
    /\ FilterIdle
    /\ PlaceIdle
    /\ SessionIdle

\* runInference: cropTransparentSpace(maskedCanvas, 5)
CropTransparentSpace ==
    /\ cout = NoValue
    /\ cout' = CropTransparentSpaceFn(ccanvas, CropPadding)
    /\ UNCHANGED <<ccanvas, filterVars, placeVars, sessionVars, renderVars, segVars,
                   historyVars, extVars>>

NextCrop == CropTransparentSpace

SpecCrop == InitCrop /\ [][NextCrop]_vars

\* the pixels of a canvas whose alpha exceeds 5
ContentPixels(canvas) ==
    {<<x, y>> \in (0..(canvas.w - 1)) \X (0..(canvas.h - 1)) :
        canvas.alpha[y * canvas.w + x + 1] > 5}

SetMin(S) == CHOOSE m \in S : \A n \in S : m <= n
SetMax(S) == CHOOSE m \in S : \A n \in S : m >= n

\* C19 (segmentation crop invariant): the returned region satisfies
\* 0 <= minX <= maxX <= w-1 and 0 <= minY <= maxY <= h-1, contains every pixel
\* whose alpha exceeds 5, and is the tight bounding box of those pixels
\* expanded by the padding and clamped to the canvas; if no pixel's alpha
\* exceeds 5 the source canvas itself is returned.
C19_CropInvariant ==
    cout # NoValue =>
        LET content == ContentPixels(ccanvas)
            xs == {p[1] : p \in content}
            ys == {p[2] : p \in content}
        IN  IF content = {}
            THEN cout = [source |-> TRUE, canvas |-> ccanvas]
            ELSE /\ ~cout.source
                 /\ 0 <= cout.minX /\ cout.minX <= cout.maxX /\ cout.maxX <= ccanvas.w - 1
                 /\ 0 <= cout.minY /\ cout.minY <= cout.maxY /\ cout.maxY <= ccanvas.h - 1
                 /\ \A p \in content :
                        /\ cout.minX <= p[1] /\ p[1] <= cout.maxX
                        /\ cout.minY <= p[2] /\ p[2] <= cout.maxY
                 /\ cout.minX = IntMax(0, SetMin(xs) - 5)
                 /\ cout.maxX = IntMin(ccanvas.w - 1, SetMax(xs) + 5)
                 /\ cout.minY = IntMax(0, SetMin(ys) - 5)
                 /\ cout.maxY = IntMin(ccanvas.h - 1, SetMax(ys) + 5)
                 /\ cout.cropW = cout.maxX - cout.minX + 1
                 /\ cout.cropH = cout.maxY - cout.minY + 1

\* a 7x1 strip whose only content is its last pixel, the first pixel at the
\* threshold: the crop leaves the first pixel out
C19_Witness ==
    /\ cout # NoValue
    /\ ccanvas.w = 7 /\ ccanvas.h = 1
    /\ ccanvas.alpha = <<5, 0, 0, 0, 0, 0, 6>>
    /\ ~cout.source
    /\ cout.minX = 1 /\ cout.maxX = 6 /\ cout.cropW = 6

-----------------------------------------------------------------------------
(* The mask history of the store: addMaskStroke, undoMaskStroke and         *)
(* clearMaskStrokes called in any order.                                    *)

MaxOps == 4

MaskStrokeValues ==
    {[points |-> <<R(30), R(40), R(20), R(20)>>, brushSize |-> R(10), type |-> "erase"],
     [points |-> <<R(50), R(60)>>, brushSize |-> R(10), type |-> "restore"],
     [points |-> <<R(50), R(60), R(10), R(10)>>, brushSize |-> R(5), type |-> "erase"]}

\* store.addMaskStroke(stroke)
StoreAddMaskStroke(stroke) ==
    /\ Len(maskLog) < MaxOps
    /\ maskStrokes' = AddMaskStrokeFn(maskStrokes, stroke)
    /\ maskLog' = Append(maskLog, [op |-> "add", stroke |-> stroke])
    /\ UNCHANGED <<renderVars, segVars, cropVars, extVars, filterVars, placeVars, page,
                   selectedTheme, originalBabyImageUrl, processedBabyImageUrl,
                   babyTransform, activeTab, maskMode, maskBrushSize,
                   editorStageWidth, exportedImageUrl, containerWidth,
                   babyImage, placementDone, isDrawing, currentStrokePoints,
                   placements>>

\* store.undoMaskStroke()
StoreUndoMaskStroke ==
    /\ Len(maskLog) < MaxOps
    /\ maskStrokes' = UndoMaskStrokeFn(maskStrokes)
    /\ maskLog' = Append(maskLog, [op |-> "undo"])
    /\ UNCHANGED <<renderVars, segVars, cropVars, extVars, filterVars, placeVars, page,
                   selectedTheme, originalBabyImageUrl, processedBabyImageUrl,
                   babyTransform, activeTab, maskMode, maskBrushSize,
                   editorStageWidth, exportedImageUrl, containerWidth,
                   babyImage, placementDone, isDrawing, currentStrokePoints,
                   placements>>

\* store.clearMaskStrokes()
StoreClearMaskStrokes ==
    /\ Len(maskLog) < MaxOps
    /\ maskStrokes' = ClearMaskStrokesFn(maskStrokes)
    /\ maskLog' = Append(maskLog, [op |-> "clear"])
    /\ UNCHANGED <<renderVars, segVars, cropVars, extVars, filterVars, placeVars, page,
                   selectedTheme, originalBabyImageUrl, processedBabyImageUrl,
                   babyTransform, activeTab, maskMode, maskBrushSize,
                   editorStageWidth, exportedImageUrl, containerWidth,
                   babyImage, placementDone, isDrawing, currentStrokePoints,
                   placements>>

InitMaskHistory ==
    /\ SessionIdle
    /\ FilterIdle
    /\ PlaceIdle
    /\ LibIdle

NextMaskHistory ==
    \/ \E stroke \in MaskStrokeValues : StoreAddMaskStroke(stroke)
    \/ StoreUndoMaskStroke
    \/ StoreClearMaskStrokes

SpecMaskHistory == InitMaskHistory /\ [][NextMaskHistory]_vars

\* the list a sequence of operations leaves behind: add appends, undo removes
\* the last element if there is one, clear empties
RECURSIVE StackAfter(_)
StackAfter(log) ==
    IF log = <<>> THEN <<>>
    ELSE LET before == StackAfter(SubSeq(log, 1, Len(log) - 1))
             last == log[Len(log)]
         IN  CASE last.op = "add" -> before \o <<last.stroke>>
               [] last.op = "undo" ->
                      IF before = <<>> THEN <<>>
                      ELSE [i \in 1..(Len(before) - 1) |-> before[i]]
               [] last.op = "clear" -> <<>>

\* C20 (mask history is a stack without redo): after any sequence of
\* addMaskStroke, undoMaskStroke and clearMaskStrokes, maskStrokes is the list
\* obtained by appending on add, removing only the last element on undo (no-op
\* on an empty list) and emptying on clear.
C20_MaskHistoryStack == maskStrokes = StackAfter(maskLog)

\* two strokes added, the second undone, another added: the first stroke is
\* still first and the undone one is gone
C20_Witness ==
    /\ Len(maskLog) = 4
    /\ maskLog[1].op = "add" /\ maskLog[2].op = "add"
    /\ maskLog[1].stroke # maskLog[2].stroke
    /\ maskLog[3].op = "undo"
    /\ maskLog[4].op = "add" /\ maskLog[4].stroke \notin {maskLog[1].stroke, maskLog[2].stroke}
    /\ maskStrokes = <<maskLog[1].stroke, maskLog[4].stroke>>

-----------------------------------------------------------------------------
(* Claims about stroke recording.                                           *)

\* the pointer position pos in the subject's native space under transform t
NativePair(pos, t) ==
    LET l == ProjectToNative(pos[1], pos[2], t) IN <<l[1], l[2]>>

\* C21 (stroke recording is in native space): the pair recorded at
\* pointer-down and every pair recorded at pointer-move is the pointer
\* position mapped through the inverse of the current transform, and the
\* stroke handed to addMaskStroke holds those pairs with the brush size
\* divided by the scale.
C21_NativeRecording ==
    [][ /\ \A pos \in PointerPositions :
               HandleMaskPointerDown(pos)
                   => currentStrokePoints' = NativePair(pos, babyTransform)
        /\ \A pos \in PointerPositions :
               HandleMaskPointerMove(pos)
                   => currentStrokePoints' =
                          currentStrokePoints \o NativePair(pos, babyTransform)
        /\ (HandleMaskPointerUp /\ Len(maskStrokes') > Len(maskStrokes))
               => maskStrokes'[Len(maskStrokes')] =
                      [points |-> currentStrokePoints,
                       brushSize |-> RDiv(maskBrushSize, babyTransform.scaleX),
                       type |-> maskMode]
      ]_vars

-----------------------------------------------------------------------------
(* The adjustment controls of the editor (AdjustTools, FilterTools).        *)

\* lib/filters filterPresets
FilterPresets ==
    {[id |-> "none", values |-> ZeroAdjust],
     [id |-> "studio_glow",
      values |-> [brightness |-> Frac(1, 20), contrast |-> R(10),
                  vibrance |-> Frac(2, 25), warmth |-> Frac(1, 20)]],
     [id |-> "warm_gold",
      values |-> [brightness |-> Frac(1, 25), contrast |-> R(8),
                  vibrance |-> Frac(3, 25), warmth |-> Frac(3, 20)]],
     [id |-> "soft_pastel",
      values |-> [brightness |-> Frac(7, 100), contrast |-> R(-5),
                  vibrance |-> Frac(-1, 20), warmth |-> Frac(1, 20)]],
     [id |-> "cool_modern",
      values |-> [brightness |-> Frac(3, 100), contrast |-> R(12),
                  vibrance |-> Frac(-3, 100), warmth |-> Frac(-2, 25)]],
     [id |-> "royal_rich",
      values |-> [brightness |-> Frac(-1, 50), contrast |-> R(18),
                  vibrance |-> Frac(3, 20), warmth |-> Frac(1, 10)]]}

\* the values a slider of AdjustTools is moved to
SliderChanges ==
    {<<"brightness", Frac(1, 10)>>, <<"contrast", R(10)>>, <<"warmth", R(0)>>}

\* FilterTools handleFilterSelect: setActiveFilter, then setAdjustValues
HandleFilterSelect(preset) ==
    /\ page = "editor"
    /\ activeTab = "filters"
    /\ activeFilter' = IF preset.id = "none" THEN NoValue ELSE [id |-> preset.id]
    /\ adjustValues' = [adjustValues EXCEPT
                            !.brightness = preset.values.brightness,
                            !.contrast = preset.values.contrast,
                            !.vibrance = preset.values.vibrance,
                            !.warmth = preset.values.warmth]
    /\ UNCHANGED <<libVars, filterVars, placeVars, sessionVars>>

\* AdjustTools slider onChange: setAdjustValues({[key]: value})
HandleSliderChange(key, value) ==
    /\ page = "editor"
    /\ activeTab = "adjust"
    /\ adjustValues' = [adjustValues EXCEPT ![key] = value]
    /\ UNCHANGED <<libVars, filterVars, placeVars, sessionVars, activeFilter>>

\* AdjustTools "Reset Adjustments": store.resetAdjustValues
ResetAdjustValues ==
    /\ page = "editor"
    /\ activeTab = "adjust"
    /\ adjustValues' = DefaultAdjust
    /\ UNCHANGED <<libVars, filterVars, placeVars, sessionVars, activeFilter>>

-----------------------------------------------------------------------------
(* Specification SpecExport: the render requests of the export page, each   *)
(* an asynchronous renderToCanvas call whose promise settles later, while   *)
(* the user goes back to the editor, edits and exports again.               *)

MaxRenders == 2

\* the RenderConfig the render effect of ExportContent builds from the store
ExportConfig ==
    [theme |-> selectedTheme,
     babyImageUrl |-> processedBabyImageUrl,
     babyTransform |-> babyTransform,
     adjustValues |-> adjustValues,
     maskStrokes |-> maskStrokes,
     mode |-> "export",
     stageWidth |-> editorStageWidth]

\* editor export button: router.push(/export); ExportContent mounts and its
\* render effect runs: unless it returns early it calls renderToCanvas and
\* awaits the result
ExportContentMount ==
    /\ page = "editor"
    /\ Len(renders) < MaxRenders
    /\ page' = "export"
    /\ UnmountEditor
    /\ IF selectedTheme = NoValue \/ processedBabyImageUrl = NoValue
          \/ exportedImageUrl # NoValue
       THEN /\ mountRender' = 0
            /\ UNCHANGED renders
       ELSE /\ renders' = Append(renders, [config |-> ExportConfig,
                                           settled |-> FALSE])
            /\ mountRender' = Len(renders) + 1
    /\ UNCHANGED <<renderVars, segVars, cropVars, historyVars, adminVars, adjustVars,
                   filterVars, placeVars, selectedTheme,
                   originalBabyImageUrl, processedBabyImageUrl,
                   babyTransform, activeTab, maskStrokes, maskMode,
                   maskBrushSize, editorStageWidth, exportedImageUrl,
                   placements>>

\* the promise of call k fulfils: setExportedImageUrl(dataUrl), whichever
\* page is shown and whichever calls were made since
RenderResolves(k) ==
    /\ k \in 1..Len(renders)
    /\ ~renders[k].settled
    /\ exportedImageUrl' = RenderToCanvasFn(renders[k].config)
    /\ renders' = [renders EXCEPT ![k].settled = TRUE]
    /\ UNCHANGED <<renderVars, segVars, cropVars, historyVars, adminVars, adjustVars,
                   filterVars, placeVars, mountRender, page, selectedTheme,
                   originalBabyImageUrl, processedBabyImageUrl,
                   babyTransform, activeTab, maskStrokes, maskMode,
                   maskBrushSize, editorStageWidth, containerWidth,
                   babyImage, placementDone, isDrawing, currentStrokePoints,
                   placements>>

InitExport == InitMask

NextExport ==
    \/ BabyImageLoaded
    \/ \E pos \in DragPositions : HandleBabyDragEnd(pos)
    \/ \E tab \in {"move", "adjust"} : SetActiveTab(tab)
    \/ \E c \in SliderChanges : HandleSliderChange(c[1], c[2])
    \/ ResetAdjustValues
    \/ ExportContentMount
    \/ \E k \in 1..MaxRenders : RenderResolves(k)
    \/ \E w \in ContainerWidths : ExportBack(w)

SpecExport == InitExport /\ [][NextExport]_vars

\* C22 (last request wins): once every render request of the export page has
\* settled, the exportedImageUrl stored is the result of the request started
\* last, whatever the order in which the requests completed.
C22_LastRequestWins ==
    (renders # <<>> /\ \A k \in 1..Len(renders) : renders[k].settled)
        => exportedImageUrl = RenderToCanvasFn(renders[Len(renders)].config)

\* C23 (render observes current state): the image the export page displays
\* was rendered from the subject transform, the adjustment bundle and the
\* mask list the session holds when the export was requested.  Nothing on
\* the export page edits them, so they are the ones held while it is shown.
C23_RenderObservesCurrentState ==
    (page = "export" /\ exportedImageUrl # NoValue)
        => /\ exportedImageUrl.config.babyTransform = babyTransform
           /\ exportedImageUrl.config.adjustValues = adjustValues
           /\ exportedImageUrl.config.maskStrokes = maskStrokes

-----------------------------------------------------------------------------
(* Specification SpecSession: the flow of SpecEditor with the browser's     *)
(* history navigation.  The processing page is entered with router.push and *)
(* left with router.push, and its skip effect answers a return to it with   *)
(* router.replace(/editor): going back from the editor lands on the         *)
(* processing page, which replaces itself by the editor, and going back     *)
(* again lands on the photo page, the store untouched.                      *)

\* history back from the editor, through the skip effect, to the photo page
HistoryBackToPhoto ==
    /\ page = "editor"
    /\ processedBabyImageUrl # NoValue
    /\ page' = "photo"
    /\ UnmountEditor
    /\ UNCHANGED <<libVars, adjustVars, filterVars, placeVars, selectedTheme,
                   originalBabyImageUrl, processedBabyImageUrl,
                   babyTransform, activeTab, maskStrokes, maskMode,
                   maskBrushSize, editorStageWidth, exportedImageUrl,
                   placements>>

NextSession ==
    \/ NextEditor
    \/ HistoryBackToPhoto

SpecSession == InitEditor /\ [][NextSession]_vars

\* C24 (session lifecycle): when a new photo has been chosen the transform
\* and the mask list of the previous subject are gone while it is processed
\* (default transform, no strokes), and the cut-out the editor shows is the
\* cut-out of the photo chosen last.
C24_SessionLifecycle ==
    /\ page = "processing"
           => babyTransform = DefaultTransform /\ maskStrokes = <<>>
    /\ (page = "editor" /\ processedBabyImageUrl # NoValue)
           => processedBabyImageUrl = Cutout(originalBabyImageUrl)

-----------------------------------------------------------------------------
(* Claims about the shadow and the layers of a composited frame, under     *)
(* SpecRender.                                                              *)

\* C25 (disabled shadow): in a renderToCanvas call on a theme whose shadow is
\* disabled, calculateShadowOffset of that shadow is all zeros whatever its
\* angle, distance, blur and opacity are, and no shadow draw is issued.
C25_DisabledShadow ==
    (rconfig # NoValue /\ ~rconfig.theme.shadow.enabled)
        => /\ CalculateShadowOffsetFn(rconfig.theme.shadow) =
                  [offsetX |-> R(0), offsetY |-> R(0),
                   blur |-> R(0), opacity |-> R(0)]
           /\ ShadowDraws = <<>>

\* a finished call on a theme with a disabled shadow of non-zero angle,
\* distance, blur and opacity: the subject is drawn, no shadow is
C25_Witness ==
    /\ rpc = "done"
    /\ ~rconfig.theme.shadow.enabled
    /\ rconfig.theme.shadow.angle = R(180)
    /\ rconfig.theme.shadow.distance = R(20)
    /\ rconfig.theme.shadow.blur = R(10)
    /\ rconfig.theme.shadow.opacity = R(1)
    /\ Len(BabyDraws) = 1
    /\ ShadowDraws = <<>>

-----------------------------------------------------------------------------
(* Specification SpecAdjust: the adjust and filters tabs of the editor.     *)

InitAdjust == InitMask

NextAdjust ==
    \/ \E tab \in {"move", "adjust", "filters"} : SetActiveTab(tab)
    \/ \E preset \in FilterPresets : HandleFilterSelect(preset)
    \/ \E c \in SliderChanges : HandleSliderChange(c[1], c[2])
    \/ ResetAdjustValues

SpecAdjust == InitAdjust /\ [][NextAdjust]_vars

\* C28 (theme default adjustments stay applied): while a theme is selected
\* and no slider, preset or reset has been used since, adjustValues is the
\* defaultAdjust of that theme.  SpecEditor has no slider, preset or reset
\* action, so there this is every state with a theme selected, those after
\* the editor's back button (clearProcessedImage) included.
C28_ThemeDefaultAdjustKept ==
    selectedTheme # NoValue
        => adjustValues = SetSelectedThemeAdjust(selectedTheme)

\* C30 (active filter consistency): activeFilter is null or names a preset
\* whose four values are the current adjustValues.
C30_ActiveFilterConsistent ==
    \/ activeFilter = NoValue
    \/ \E preset \in FilterPresets :
           /\ preset.id = activeFilter.id
           /\ preset.values = adjustValues

-----------------------------------------------------------------------------
(* The admin theme editor: the layer controls of LayerPanel and the save    *)
(* actions of the admin store.                                              *)

MaxZ == 4
MaxSaves == 3

\* a theme as /admin/new creates it: background, mid layer and foreground at
\* zIndex 0, 1 and 3, the subject at 2; a layer without a visible field counts
\* as visible
AdminTheme0 ==
    [id |-> "a1", status |-> "draft", version |-> 1, babyZIndex |-> 2,
     layers |-> <<[url |-> "background", zIndex |-> 0, visible |-> TRUE],
                  [url |-> "mid", zIndex |-> 1, visible |-> TRUE],
                  [url |-> "foreground", zIndex |-> 3, visible |-> TRUE]>>]

LayerUrls == {"background", "mid", "foreground"}

\* theme.layers.find((l) => l.url === url)
FindLayer(layers, url) ==
    layers[CHOOSE i \in 1..Len(layers) : layers[i].url = url]

\* LayerPanel toggleVisibility: the list handed to updateLayers
ToggleVisibilityFn(layers, url) ==
    [i \in 1..Len(layers) |->
        IF layers[i].url = url
        THEN [layers[i] EXCEPT !.visible = (layers[i].visible = FALSE)]
        ELSE layers[i]]

\* LayerPanel moveLayerUp: the list handed to updateLayers
MoveLayerUpFn(layers, url) ==
    LET layer == FindLayer(layers, url)
    IN  [i \in 1..Len(layers) |->
            IF layers[i].url = url
            THEN [layers[i] EXCEPT !.zIndex = layers[i].zIndex + 1]
            ELSE IF layers[i].zIndex = layer.zIndex + 1
                 THEN [layers[i] EXCEPT !.zIndex = layers[i].zIndex - 1]
                 ELSE layers[i]]

\* LayerPanel moveLayerDown: the list handed to updateLayers
MoveLayerDownFn(layers, url) ==
    LET layer == FindLayer(layers, url)
    IN  [i \in 1..Len(layers) |->
            IF layers[i].url = url
            THEN [layers[i] EXCEPT !.zIndex = layers[i].zIndex - 1]
            ELSE IF layers[i].zIndex = layer.zIndex - 1 /\ layers[i].zIndex > 0
                 THEN [layers[i] EXCEPT !.zIndex = layers[i].zIndex + 1]
                 ELSE layers[i]]

\* the eye button of a layer row: toggleVisibility(url) -> updateLayers
ToggleVisibility(url) ==
    /\ adminTheme # NoValue
    /\ adminTheme' = [adminTheme EXCEPT
                          !.layers = ToggleVisibilityFn(adminTheme.layers, url)]
    /\ isDirty' = TRUE
    /\ UNCHANGED <<saves, storedOverride>>
    /\ UNCHANGED <<filterVars, placeVars, sessionVars, renderVars, segVars,
                   cropVars, historyVars, adjustVars, exportVars>>

\* the up button of a layer row: moveLayerUp(url) -> updateLayers
MoveLayerUp(url) ==
    /\ adminTheme # NoValue
    /\ FindLayer(adminTheme.layers, url).zIndex # 0
    /\ FindLayer(adminTheme.layers, url).zIndex < MaxZ
    /\ adminTheme' = [adminTheme EXCEPT
                          !.layers = MoveLayerUpFn(adminTheme.layers, url)]
    /\ isDirty' = TRUE
    /\ UNCHANGED <<saves, storedOverride>>
    /\ UNCHANGED <<filterVars, placeVars, sessionVars, renderVars, segVars,
                   cropVars, historyVars, adjustVars, exportVars>>

\* the down button of a layer row: moveLayerDown(url) -> updateLayers
MoveLayerDown(url) ==
    /\ adminTheme # NoValue
    /\ FindLayer(adminTheme.layers, url).zIndex > 1
    /\ adminTheme' = [adminTheme EXCEPT
                          !.layers = MoveLayerDownFn(adminTheme.layers, url)]
    /\ isDirty' = TRUE
    /\ UNCHANGED <<saves, storedOverride>>
    /\ UNCHANGED <<filterVars, placeVars, sessionVars, renderVars, segVars,
                   cropVars, historyVars, adjustVars, exportVars>>

\* the buttons of the baby row: updateBabyZIndex(babyZIndex + 1) and
\* updateBabyZIndex(Math.max(1, babyZIndex - 1))
UpdateBabyZIndex(zIndex) ==
    /\ adminTheme # NoValue
    /\ zIndex \in {adminTheme.babyZIndex + 1,
                   IntMax(1, adminTheme.babyZIndex - 1)}
    /\ zIndex <= MaxZ
    /\ adminTheme' = [adminTheme EXCEPT !.babyZIndex = zIndex]
    /\ isDirty' = TRUE
    /\ UNCHANGED <<saves, storedOverride>>
    /\ UNCHANGED <<filterVars, placeVars, sessionVars, renderVars, segVars,
                   cropVars, historyVars, adjustVars, exportVars>>

\* the layers the admin canvas draws: below and above the subject, visible only
AdminCanvasLayers(theme) ==
    SelectSeq(SortedLayers(theme.layers),
              LAMBDA l : l.zIndex < theme.babyZIndex /\ l.visible # FALSE)
    \o SelectSeq(SortedLayers(theme.layers),
                 LAMBDA l : l.zIndex > theme.babyZIndex /\ l.visible # FALSE)

\* the layers renderToCanvas and the consumer CanvasStage draw
RendererLayers(theme) == BelowBaby(theme) \o AboveBaby(theme)

\* the theme editor page with the theme loaded (setTheme), nothing saved
InitAdminLayers ==
    /\ adminTheme = AdminTheme0
    /\ isDirty = FALSE
    /\ saves = <<>>
    /\ storedOverride = NoValue
    /\ RenderIdle
    /\ SegIdle
    /\ CropIdle
    /\ HistoryIdle
    /\ ExportIdle
    /\ FilterIdle
    /\ PlaceIdle
    /\ SessionIdle

NextAdminLayers ==
    \/ \E url \in LayerUrls : ToggleVisibility(url)
    \/ \E url \in LayerUrls : MoveLayerUp(url)
    \/ \E url \in LayerUrls : MoveLayerDown(url)
    \/ \E zIndex \in 1..MaxZ : UpdateBabyZIndex(zIndex)

SpecAdminLayers == InitAdminLayers /\ [][NextAdminLayers]_vars

\* the times a layer is among the layers a renderer draws
TimesDrawn(drawn, layer) ==
    Cardinality({i \in 1..Len(drawn) : drawn[i].url = layer.url})

\* C26 (every layer drawn once): in the frame composited from the theme the
\* admin controls have produced, every layer of the theme is drawn exactly
\* once, before or after the subject.
C26_EveryLayerDrawnOnce ==
    \A i \in 1..Len(adminTheme.layers) :
        TimesDrawn(RendererLayers(adminTheme), adminTheme.layers[i]) = 1

\* C27 (hidden layers drawn by no renderer): renderToCanvas and the consumer
\* CanvasStage draw the layers the admin canvas draws, those with
\* visible # false and a zIndex other than babyZIndex.
C27_HiddenLayersNotDrawn ==
    {RendererLayers(adminTheme)[i].url :
        i \in 1..Len(RendererLayers(adminTheme))}
    = {AdminCanvasLayers(adminTheme)[i].url :
        i \in 1..Len(AdminCanvasLayers(adminTheme))}

-----------------------------------------------------------------------------
(* Specification SpecAdminSave: saveDraft, publish and archive, each        *)
(* starting a saveThemeOverride call that is not awaited.  The call awaits  *)
(* saveThemeLayerImages (IndexedDB) and only then reads, merges and writes  *)
(* the override in localStorage; nothing in the code orders the calls.      *)

\* { ...overrides[idx], ...cleanOverride }, or the override itself when the
\* theme id has none stored yet
UpsertOverride(old, override) ==
    IF old = NoValue THEN override
    ELSE [f \in (DOMAIN old) \cup (DOMAIN override) |->
              IF f \in DOMAIN override THEN override[f] ELSE old[f]]

\* the part of a save action after it has built the updated theme:
\* void saveThemeOverride(updated); set({ theme: updated, isDirty: false })
SaveUpdated(updated) ==
    /\ Len(saves) < MaxSaves
    /\ saves' = Append(saves, [override |-> updated, written |-> FALSE])
    /\ adminTheme' = updated
    /\ isDirty' = FALSE
    /\ UNCHANGED storedOverride
    /\ UNCHANGED <<filterVars, placeVars, sessionVars, renderVars, segVars,
                   cropVars, historyVars, adjustVars, exportVars>>

\* useAdminStore.saveDraft
SaveDraft ==
    /\ adminTheme # NoValue
    /\ SaveUpdated([adminTheme EXCEPT
           !.status = IF adminTheme.status = "archived" THEN "draft"
                      ELSE adminTheme.status])

\* useAdminStore.publish
Publish ==
    /\ adminTheme # NoValue
    /\ SaveUpdated([adminTheme EXCEPT !.status = "published",
                                      !.version = adminTheme.version + 1])

\* useAdminStore.archive
Archive ==
    /\ adminTheme # NoValue
    /\ SaveUpdated([adminTheme EXCEPT !.status = "archived"])

\* saveThemeOverride call k resumes after await saveThemeLayerImages:
\* loadAdminOverrides, upsert, saveAdminOverrides
SaveThemeOverrideWrites(k) ==
    /\ k \in 1..Len(saves)
    /\ ~saves[k].written
    /\ storedOverride' = UpsertOverride(storedOverride, saves[k].override)
    /\ saves' = [saves EXCEPT ![k].written = TRUE]
    /\ UNCHANGED <<adminTheme, isDirty>>
    /\ UNCHANGED <<filterVars, placeVars, sessionVars, renderVars, segVars,
                   cropVars, historyVars, adjustVars, exportVars>>

InitAdminSave == InitAdminLayers

NextAdminSave ==
    \/ ToggleVisibility("foreground")
    \/ SaveDraft
    \/ Publish
    \/ Archive
    \/ \E k \in 1..MaxSaves : SaveThemeOverrideWrites(k)

SpecAdminSave == InitAdminSave /\ [][NextAdminSave]_vars

====
